---------------------------- MODULE Spec2Model ----------------------------
(***************************************************************************)
(* Single-asset market simulation (model.py, agents.py) and the post-hoc   *)
(* arbitrage detection engine (main.py, rules.py, config.py).              *)
(*                                                                         *)
(* Money is counted in half currency units, so that the 0.5 bias drift of  *)
(* AssetMarket.step is the integer 1: a price of 200 is 100.0, the agents' *)
(* starting cash 1000.0 is 2000, a price impact of 2 is 1.0.  The Gaussian *)
(* price increment is a nondeterministic choice on that grid.              *)
(***************************************************************************)
EXTENDS Integers, Sequences, FiniteSets, TLC

VARIABLES
    \* ---- AssetMarket (model.py) ----
    price_impact,     \* constructor parameter, >= 0
    tick,
    price,
    last_price,
    baseline_price,
    bias_direction,
    bias_active,
    trades_this_tick,
    \* ---- TraderAgent (agents.py) ----
    cash,             \* agent -> cash
    holdings,         \* agent -> units held
    \* ---- control: where the run is inside AssetMarket.step ----
    pc,               \* "clock" | "agents" | "fill"
    todo,             \* agents shuffle_do has not stepped yet in this tick
    order,            \* locals of the TraderAgent.step in progress, or NoOrder
    raised,           \* a TypeError was raised by the logger.log call
    records,          \* TradeLogger.records, the global ledger (model.trade_log)
    price_history,    \* model.price_history: initial price, then each tick's close
    norders,          \* orders started so far (bounded)
    \* ---- RoundTripProfitRule.detect on one agent's trades (rules.py) ----
    rt_params,        \* [time_window, profit_threshold] of the rule
    rt,               \* the loop's locals: position, entry_cost, ...
    rt_seen,          \* what the loop did with the trades so far
    \* ---- ArbitrageDetectionEngine (main.py) ----
    eng_pc,           \* "new" | "load" | "detect" | "saved" | "error"
    rules,            \* self.rules
    allowed_fields,   \* self.allowed_fields
    error,            \* the exception raised, or NoError
    trades,           \* the ledger loaded so far
    all_ticks,        \* sorted ticks of the ledger (_organize_trades)
    all_agents,       \* agents of the ledger (_organize_trades)
    combined_suspicions,  \* agent -> tick -> probability
    rule_idx,         \* position of detect's loop over self.rules
    emitted,          \* cells of the current rule's output already combined
    outs,             \* cell -> the rule outputs combined into it, in order
    csv_rows,         \* the rows save_to_csv wrote
    \* ---- two runs of the simulation side by side (random sources) ----
    runs,             \* run -> its generators, tick, price path, agent orders
    \* ---- the strategies of the agents (strategies.py) ----
    strategy,         \* agent -> its strategy object: parameters and memory
    decision,         \* what the last decide_action call returned, and when
    \* ---- one call of PredictiveTradeRule.detect on a ledger (rules.py) ----
    pred,             \* the ledger, price_by_tick, the loop and its output
    \* ---- a TradeLogger object called directly (logger.py) ----
    logger,           \* its windows, price history, endowments and records
    \* ---- calls of ArbitrageDetectionEngine.detect with its rules ----
    batch,            \* the engine, the caller's trade list, the results
    \* ---- TraderAgent.step, remembered ----
    ended             \* the last order that ended, with where it left things

simVars == <<price_impact, tick, price, last_price, baseline_price,
             bias_direction, bias_active, trades_this_tick, cash, holdings,
             pc, todo, order, raised, records, price_history,
             norders>>

ruleVars == <<rt_params, rt, rt_seen>>

engVars == <<eng_pc, rules, allowed_fields, error, trades, all_ticks,
             all_agents, combined_suspicions, rule_idx, emitted, outs,
             csv_rows>>

detVars == <<ruleVars, engVars>>

stratVars == <<strategy, decision>>

auxVars == <<pred, logger, batch, ended>>

vars == <<simVars, detVars, runs, stratVars, auxVars>>

-----------------------------------------------------------------------------
(* Bounds of the model *)
MaxTick == 11
TradeTicks == 2
MaxUnits == 3
MaxOrders == 2

(* Program constants, in half currency units *)
StartCash == 2000
CycleLength == 10
BiasDrift == 1

Agents == {1, 2}
(* constructor parameters <<initial_price, price_impact>> explored *)
MarketParams == {<<1, 2>>, <<200, 2>>, <<900, 0>>}
Shocks == {-1, 0, 1}

Max(a, b) == IF a >= b THEN a ELSE b
Min(a, b) == IF a <= b THEN a ELSE b

NoOrder == [agent |-> 0]
NoIntent == [action |-> "none", units |-> 0]
Intents == {NoIntent} \cup [action : {"buy", "sell"}, units : 0..MaxUnits]

NoDecision == [agent |-> 0]

(* no strategy object is followed *)
StratIdle == strategy = <<>> /\ decision = NoDecision

(* no call of PredictiveTradeRule.detect is followed *)
PredIdle == pred = [pc |-> "idle"]

(* no TradeLogger object is called directly *)
LoggerIdle == logger = [pc |-> "idle"]

(* no ArbitrageDetectionEngine with working rules is followed *)
BatchIdle == batch = [pc |-> "idle"]

(* no order has ended, or none is remembered *)
EndedIdle == ended = NoOrder

AuxIdle == PredIdle /\ LoggerIdle /\ BatchIdle /\ EndedIdle

-----------------------------------------------------------------------------
(* AssetMarket.__init__ and TraderAgent.__init__ *)
SimInit ==
    /\ \E mp \in MarketParams : price = mp[1] /\ price_impact = mp[2]
    /\ last_price = price
    /\ baseline_price = price
    /\ bias_direction = 0
    /\ bias_active = FALSE
    /\ tick = 0
    /\ trades_this_tick = 0
    /\ cash = [a \in Agents |-> StartCash]
    /\ holdings = [a \in Agents |-> 0]
    /\ pc = "clock"
    /\ todo = {}
    /\ order = NoOrder
    /\ raised = FALSE
    /\ records = <<>>
    /\ norders = 0

(* price_history = [initial_price] *)
HistInit == price_history = <<price>>

(* price after the random-walk update: max(price + price_change, 0) *)
WalkPrice(p, change) == Max(p + change, 0)

(* a band test that only looks above the baseline *)
OutOfBandAboveOnly(p, base, roundedUp) ==
    IF roundedUp THEN 10 * p > 11 * base ELSE 10 * p >= 11 * base

(* price >= 1.1 * baseline_price or price <= 0.9 * baseline_price, computed *)
(* in floating point.  1.1 and 0.9 are not binary fractions: the product    *)
(* 1.1 * baseline is either the exact 110% of baseline or the next float    *)
(* above it (1.1 * 10.0 = 11.0, but 1.1 * 100.0 = 110.00000000000001), and  *)
(* roundedUp says which; 0.9 * baseline is never below the exact 90% where  *)
(* that is a float.  So a price exactly at 110% passes the test or not,     *)
(* and a price at 90% or below always does.                                 *)
OutOfBand(p, base, roundedUp) ==
    \/ IF roundedUp THEN 10 * p > 11 * base ELSE 10 * p >= 11 * base
    \/ 10 * p <= 9 * base

(* a cycle test that fires on the multiples of the cycle length *)
NewCycleAtMultiples(tk) == tk % CycleLength = 0

(* (self.tick - 1) % 10 == 0: the tick opens a new cycle *)
NewCycle(tk) == (tk - 1) % CycleLength = 0

(* AssetMarket.step, up to the point where the agents are stepped *)
MarketStep(dir, shock) ==
    /\ pc = "clock"
    /\ tick < MaxTick
    /\ norders = 0 \/ tick < TradeTicks
    /\ tick' = tick + 1
    /\ LET newCycle == NewCycle(tick')
           base == IF newCycle THEN price ELSE baseline_price
           bdir == IF newCycle THEN dir ELSE bias_direction
           act  == IF newCycle THEN TRUE ELSE bias_active
           change == shock + (IF act THEN BiasDrift * bdir ELSE 0)
           p == WalkPrice(price, change)
       IN /\ baseline_price' = base
          /\ bias_direction' = bdir
          /\ last_price' = price
          /\ price' = p
          /\ \E roundedUp \in BOOLEAN :
                bias_active' = (act /\ ~OutOfBand(p, base, roundedUp))
    /\ trades_this_tick' = 0
    /\ todo' = Agents
    /\ pc' = "agents"
    /\ UNCHANGED <<price_impact, cash, holdings, order, raised, norders>>
    /\ UNCHANGED <<records, price_history, detVars, runs, stratVars, auxVars>>

(* TraderAgent.step from the decision to the fill loop: a decision of None  *)
(* or of no units returns at once, any other starts the order               *)
TakeDecision(a, intent) ==
    /\ IF intent = NoIntent \/ intent.units <= 0
       THEN /\ todo' = todo \ {a}
            /\ UNCHANGED <<order, pc>>
       ELSE /\ order' = [agent |-> a, action |-> intent.action,
                         units |-> intent.units, actual_units |-> 0,
                         start_price |-> price, amount |-> 0,
                         units_to_sell |-> Min(intent.units, holdings[a]),
                         cash_before |-> cash[a],
                         holdings_before |-> holdings[a]]
            /\ pc' = "fill"
            /\ UNCHANGED todo
    /\ UNCHANGED <<price_impact, tick, price, last_price, baseline_price,
                   bias_direction, bias_active, trades_this_tick, cash,
                   holdings, records>>

(* TraderAgent.step of an agent whose strategy may decide anything: the     *)
(* decision and the early returns before the fill loop                      *)
AgentDecide(a, intent) ==
    /\ pc = "agents"
    /\ a \in todo
    /\ IF intent = NoIntent \/ intent.units <= 0
       THEN UNCHANGED norders
       ELSE /\ norders < MaxOrders
            /\ tick <= TradeTicks
            /\ norders' = norders + 1
    /\ TakeDecision(a, intent)
    /\ UNCHANGED <<raised, price_history, detVars, runs, stratVars, auxVars>>

(* a buy loop that does not look at the agent's cash *)
BuyCondNoCash(o) ==
    /\ o.actual_units < o.units
    /\ price > 0

(* a buy loop that stops after the first unit *)
BuyCondOneUnit(o) ==
    /\ o.actual_units < 1
    /\ cash[o.agent] >= price
    /\ price > 0

(* the buy loop's condition *)
BuyCond(o) ==
    /\ o.actual_units < o.units
    /\ cash[o.agent] >= price
    /\ price > 0

(* a sell loop that runs up to the units requested, held or not *)
SellCondNoHoldings(o) == o.actual_units < o.units

(* the sell loop's condition; units_to_sell = min(units, holdings) *)
SellCond(o) ==
    /\ o.actual_units < o.units_to_sell
    /\ holdings[o.agent] > 0

(* a sell that does not floor the price *)
SellPriceNoFloor(p, impact) == p - impact

(* a sell that moves the price by twice the impact *)
SellPriceDoubleImpact(p, impact) ==
    IF p - 2 * impact < 0 THEN 0 ELSE p - 2 * impact

(* a buy that leaves the price where it was *)
BuyPriceNoImpact(p, impact) == p

(* price after one unit bought: raised by the impact *)
BuyPrice(p, impact) == p + impact

(* price after one unit sold: lowered by the impact, floored at 0 *)
SellPrice(p, impact) == IF p - impact < 0 THEN 0 ELSE p - impact

(* one iteration of the buy loop *)
BuyUnit ==
    /\ pc = "fill"
    /\ order.action = "buy"
    /\ BuyCond(order)
    /\ cash' = [cash EXCEPT ![order.agent] = @ - price]
    /\ holdings' = [holdings EXCEPT ![order.agent] = @ + 1]
    /\ trades_this_tick' = trades_this_tick + 1
    /\ price' = BuyPrice(price, price_impact)
    /\ order' = [order EXCEPT !.actual_units = @ + 1, !.amount = @ + price]
    /\ UNCHANGED <<price_impact, tick, last_price, baseline_price,
                   bias_direction, bias_active, pc, todo, raised, norders>>
    /\ UNCHANGED <<records, price_history, detVars, runs, stratVars, auxVars>>

(* one iteration of the sell loop *)
SellUnit ==
    /\ pc = "fill"
    /\ order.action = "sell"
    /\ SellCond(order)
    /\ holdings' = [holdings EXCEPT ![order.agent] = @ - 1]
    /\ cash' = [cash EXCEPT ![order.agent] = @ + price]
    /\ trades_this_tick' = trades_this_tick + 1
    /\ price' = SellPrice(price, price_impact)
    /\ order' = [order EXCEPT !.actual_units = @ + 1, !.amount = @ + price]
    /\ UNCHANGED <<price_impact, tick, last_price, baseline_price,
                   bias_direction, bias_active, pc, todo, raised, norders>>
    /\ UNCHANGED <<records, price_history, detVars, runs, stratVars, auxVars>>

(* the fill loop of the order in progress has ended *)
LoopDone(o) ==
    \/ o.action = "buy" /\ ~BuyCond(o)
    \/ o.action = "sell" /\ ~SellCond(o)

(* positional arguments the call at the end of TraderAgent.step passes to   *)
(* logger.log, and positional parameters TradeLogger.log requires (none has *)
(* a default)                                                               *)
LogArgsPassed == 6
LogParamsRequired == 12

(* the record of a filled order: tick, agent, action, total units filled,   *)
(* price at the start of the fill sequence                                  *)
TradeRecord(o, tk) ==
    [tick |-> tk, agent_id |-> o.agent, action |-> o.action,
     units |-> o.actual_units, price |-> o.start_price]

(* self.model.logger.log(...): Python binds the arguments before the body   *)
(* runs; with too few of them the call raises TypeError and appends nothing *)
LoggerLog(recs, rec) ==
    IF LogArgsPassed = LogParamsRequired
    THEN [raised |-> FALSE, records |-> Append(recs, rec)]
    ELSE [raised |-> TRUE, records |-> recs]

(* TraderAgent.step after the loop: nothing if no unit was filled; else the   *)
(* record goes to the agent's trade_history and logger.log is called with six *)
(* arguments, where TradeLogger.log takes twelve: the call raises TypeError   *)
(* and no record reaches the ledger.  The cash, holdings and price written by *)
(* the loop stay as they are.                                                 *)
StepReturns ==
    /\ pc = "fill"
    /\ LoopDone(order)
    /\ IF order.actual_units <= 0
       THEN UNCHANGED <<raised, records>>
       ELSE LET out == LoggerLog(records, TradeRecord(order, tick))
            IN /\ raised' = (raised \/ out.raised)
               /\ records' = out.records
    /\ todo' = todo \ {order.agent}
    /\ order' = NoOrder
    /\ pc' = "agents"
    /\ UNCHANGED <<price_impact, tick, price, last_price, baseline_price,
                   bias_direction, bias_active, trades_this_tick, cash,
                   holdings, norders>>

(* the same, in a run that follows nothing else *)
FinishOrder ==
    /\ StepReturns
    /\ UNCHANGED <<price_history, detVars, runs, stratVars, auxVars>>

(* a reset that fires at the end of every other cycle only *)
CycleEndEveryOther(tk) == tk % (2 * CycleLength) = 0

(* a reset at the end of every tick *)
CycleEndEveryTick(tk) == tk % 1 = 0

(* self.tick % 10 == 0: the tick closes a cycle *)
CycleEnd(tk) == tk % CycleLength = 0

(* AssetMarket.step after the agents, but for the append to price_history:  *)
(* every CycleLength ticks the bias is reset                                *)
CloseTick ==
    /\ pc = "agents"
    /\ todo = {}
    /\ pc' = "clock"
    /\ IF CycleEnd(tick)
       THEN bias_active' = FALSE /\ bias_direction' = 0
       ELSE UNCHANGED <<bias_active, bias_direction>>
    /\ UNCHANGED <<price_impact, tick, price, last_price, baseline_price,
                   trades_this_tick, cash, holdings, todo, order, raised,
                   norders>>
    /\ UNCHANGED <<records, detVars, runs, stratVars, auxVars>>

(* the price history is not followed *)
HistIdle == price_history = <<>>

(* AssetMarket.step after the agents, where the price history is not        *)
(* followed                                                                 *)
EndTick == CloseTick /\ UNCHANGED price_history

(* AssetMarket.step after the agents: the price at the end of the tick is   *)
(* appended to price_history, then the bias is reset if the cycle ends      *)
RecordedEndTick ==
    /\ price_history' = Append(price_history, price)
    /\ CloseTick

-----------------------------------------------------------------------------
(* Exact arithmetic for the detection rules: a number is <<n, d>>, d > 0,   *)
(* in lowest terms.  Python computes these in floating point.               *)

Abs(x) == IF x < 0 THEN 0 - x ELSE x

RECURSIVE GCD(_, _)
GCD(a, b) == IF b = 0 THEN a ELSE GCD(b, a % b)

RNorm(n, d) ==
    LET g == GCD(Abs(n), d)
    IN IF n = 0 THEN <<0, 1>> ELSE <<n \div g, d \div g>>

RInt(n) == <<n, 1>>
RAdd(x, y) == RNorm(x[1] * y[2] + y[1] * x[2], x[2] * y[2])
RSub(x, y) == RNorm(x[1] * y[2] - y[1] * x[2], x[2] * y[2])
RMul(x, y) == RNorm(x[1] * y[1], x[2] * y[2])
RDivInt(x, n) == RNorm(x[1], x[2] * n)
RLe(x, y) == x[1] * y[2] <= y[1] * x[2]
RLt(x, y) == x[1] * y[2] < y[1] * x[2]
RMax(x, y) == IF RLe(x, y) THEN y ELSE x

Zero == <<0, 1>>
Half == <<1, 2>>
One == <<1, 1>>

(* a dict: a function whose domain is its set of keys *)
EmptyMap == [k \in {} |-> Zero]
MapGet(m, k, default) == IF k \in DOMAIN m THEN m[k] ELSE default
MapPut(m, k, v) == [x \in (DOMAIN m) \cup {k} |-> IF x = k THEN v ELSE m[x]]

-----------------------------------------------------------------------------
(* RoundTripProfitRule.detect, for the trades of one agent.  The rule sorts *)
(* the agent's trades by tick (a stable sort) and folds over them; here the *)
(* trades are drawn one by one in that sorted order.                        *)

(* Bound of the model: trades of the agent in the ledger *)
MaxTrades == 4

RtTicks == {1, 2}
RtUnits == {1, 2}
RtPrices == {0, 1, 2}
TimeWindows == {0, 20}
ProfitThresholds == {Zero, Half}

NoTick == 0
NoTrade == [tick |-> NoTick, action |-> "none", units |-> 0, price |-> 0]
RtTrades == [tick : RtTicks, action : {"buy", "sell"}, units : RtUnits,
             price : RtPrices]

(* the locals of detect at the start of the loop over an agent's trades *)
RtStart ==
    [position |-> 0, entry_cost |-> Zero, entry_units |-> 0,
     entry_tick |-> NoTick, realized_profit |-> Zero,
     agent_suspicions |-> EmptyMap]

RuleInit ==
    /\ rt_params \in [time_window : TimeWindows,
                      profit_threshold : ProfitThresholds]
    /\ rt = RtStart
    /\ rt_seen = [n |-> 0, kind |-> "none", trade |-> NoTrade,
                  prev_kind |-> "none", prev_trade |-> NoTrade,
                  flagged |-> FALSE, profit |-> Zero,
                  bought |-> 0, sold |-> 0, before |-> EmptyMap,
                  open_tick |-> NoTick]

RuleIdle ==
    /\ rt_params = [time_window |-> 0, profit_threshold |-> Zero]
    /\ rt = RtStart
    /\ rt_seen = [n |-> 0]

(* avg_cost_per_unit = entry_cost / entry_units if entry_units > 0 else 0 *)
AvgCost(st) ==
    IF st.entry_units > 0 THEN RDivInt(st.entry_cost, st.entry_units) ELSE Zero

(* a profit test that also passes a profit equal to the threshold *)
ProfitAtLeast(profit, threshold, avg, units) ==
    RLe(RMul(RMul(threshold, avg), RInt(units)), profit)

(* realized_profit > profit_threshold * avg_cost_per_unit * units *)
ProfitExceeds(profit, threshold, avg, units) ==
    RLt(RMul(RMul(threshold, avg), RInt(units)), profit)

(* agent_suspicions[tick] = max(agent_suspicions.get(tick, 0), p) *)
Mark(m, tk, p) == MapPut(m, tk, RMax(MapGet(m, tk, Zero), p))

(* marks of a flagged round trip that leave the entry tick alone *)
FlagCloseOnly(m, tk, entry) == Mark(m, tk, One)

(* the marks of a flagged round trip: 1.0 at the close, 0.5 at the entry *)
FlagRoundTrip(m, tk, entry) ==
    LET closed == Mark(m, tk, One)
    IN IF entry # NoTick THEN Mark(closed, entry, Half) ELSE closed

(* which branch of the loop body a trade takes *)
RtKind(st, tr) ==
    IF st.position = 0
    THEN IF tr.action = "buy" THEN "open" ELSE "skip"
    ELSE IF tr.action = "buy" THEN "add"
         ELSE IF tr.units < st.position THEN "partial"
         ELSE IF tr.units = st.position THEN "close"
         ELSE "skip"

(* a holding duration that is always 0 *)
DurationSameTick(st, tr) == 0

(* holding duration of a close: tick - entry_tick, 0 without an entry tick *)
Duration(st, tr) == IF st.entry_tick # NoTick THEN tr.tick - st.entry_tick ELSE 0

(* realized_profit after the sell tr of an open position *)
Realize(st, tr) ==
    RAdd(st.realized_profit,
         RMul(RSub(RInt(tr.price), AvgCost(st)), RInt(tr.units)))

(* a cost basis reduced by the proceeds of the units sold *)
PartialCostAtSalePrice(st, tr) ==
    RSub(st.entry_cost, RInt(tr.units * tr.price))

(* entry_cost after the partial close tr: entry_cost -= avg_cost * units *)
PartialCost(st, tr) ==
    RSub(st.entry_cost, RMul(AvgCost(st), RInt(tr.units)))

(* whether the full close tr is flagged *)
CloseFlagged(st, tr, par) ==
    /\ ProfitExceeds(Realize(st, tr), par.profit_threshold, AvgCost(st), tr.units)
    /\ Duration(st, tr) <= par.time_window

(* one iteration of the loop over the agent's trades *)
RtStep(st, tr, par) ==
    LET kind == RtKind(st, tr)
    IN CASE kind = "open" ->
              [st EXCEPT !.position = st.position + tr.units,
                         !.entry_units = tr.units,
                         !.entry_cost = RInt(tr.units * tr.price),
                         !.entry_tick = tr.tick,
                         !.realized_profit = Zero]
         [] kind = "add" ->
              [st EXCEPT !.position = st.position + tr.units,
                         !.entry_units = st.entry_units + tr.units,
                         !.entry_cost = RAdd(st.entry_cost, RInt(tr.units * tr.price))]
         [] kind = "partial" ->
              [st EXCEPT !.realized_profit = Realize(st, tr),
                         !.entry_cost = PartialCost(st, tr),
                         !.entry_units = st.entry_units - tr.units,
                         !.position = st.position - tr.units]
         [] kind = "close" ->
              [position |-> 0, entry_cost |-> Zero, entry_units |-> 0,
               entry_tick |-> NoTick, realized_profit |-> Zero,
               agent_suspicions |->
                   IF CloseFlagged(st, tr, par)
                   THEN FlagRoundTrip(st.agent_suspicions, tr.tick, st.entry_tick)
                   ELSE st.agent_suspicions]
         [] OTHER -> st

RECURSIVE RoundTripLocals(_, _)
(* the locals of RoundTripProfitRule.detect after the loop over the sorted *)
(* trades ts of one agent                                                   *)
RoundTripLocals(ts, par) ==
    IF ts = <<>>
    THEN RtStart
    ELSE RtStep(RoundTripLocals(SubSeq(ts, 1, Len(ts) - 1), par),
                ts[Len(ts)], par)

(* the loop takes the next trade of the sorted list *)
RtProcess(tr) ==
    /\ rt_seen.n < MaxTrades
    /\ "kind" \in DOMAIN rt_seen
    /\ tr.tick >= rt_seen.trade.tick
    /\ rt' = RtStep(rt, tr, rt_params)
    /\ LET kind == RtKind(rt, tr)
           opened == kind = "open"
           bought == IF tr.action = "buy" /\ kind # "skip"
                     THEN tr.units * tr.price ELSE 0
           sold == IF tr.action = "sell" /\ kind # "skip"
                   THEN tr.units * tr.price ELSE 0
       IN rt_seen' =
            [n |-> rt_seen.n + 1, kind |-> kind, trade |-> tr,
             prev_kind |-> rt_seen.kind, prev_trade |-> rt_seen.trade,
             flagged |-> kind = "close" /\ CloseFlagged(rt, tr, rt_params),
             profit |-> IF kind \in {"partial", "close"}
                        THEN Realize(rt, tr) ELSE Zero,
             bought |-> IF opened THEN bought ELSE rt_seen.bought + bought,
             sold |-> IF opened THEN 0 ELSE rt_seen.sold + sold,
             before |-> rt.agent_suspicions,
             open_tick |-> IF opened THEN tr.tick ELSE rt_seen.open_tick]
    /\ UNCHANGED <<rt_params, simVars, engVars, runs, stratVars, auxVars>>

SimIdle ==
    /\ price_impact = 0
    /\ tick = 0
    /\ price = 0
    /\ last_price = 0
    /\ baseline_price = 0
    /\ bias_direction = 0
    /\ bias_active = FALSE
    /\ trades_this_tick = 0
    /\ cash = [a \in Agents |-> StartCash]
    /\ holdings = [a \in Agents |-> 0]
    /\ pc = "idle"
    /\ todo = {}
    /\ order = NoOrder
    /\ raised = FALSE
    /\ records = <<>>
    /\ price_history = <<>>
    /\ norders = 0

RuleNext == \E tr \in RtTrades : RtProcess(tr)

-----------------------------------------------------------------------------
(* ArbitrageDetectionEngine: construction, loading, detect and save_to_csv, *)
(* as the script at the end of main.py runs them.  A rule is whatever       *)
(* DetectionRule the caller passes: its detect returns some map             *)
(* {agent: {tick: probability}}, drawn here cell by cell.                   *)

(* Bounds of the model *)
MaxRows == 2
MaxOutputs == 2

(* config.OUTPUT_DECIMALS = 3: probabilities are written in thousandths *)
OutputScale == 1000

EngTicks == {1, 2, 3}
EngAgents == {1, 2}
ProbGrid == {Zero, Half, One}

ALLOWED_FIELDS == {"tick", "agent_id", "action", "units", "price"}
RoundTripProfitRule ==
    [name |-> "RoundTripProfitRule",
     fields |-> {"tick", "agent_id", "action", "units", "price"}]
PredictiveTradeRule ==
    [name |-> "PredictiveTradeRule",
     fields |-> {"tick", "agent_id", "action", "price"}]
RuleLists == {<<RoundTripProfitRule, PredictiveTradeRule>>,
              <<PredictiveTradeRule, RoundTripProfitRule>>}
AllowedSets == {ALLOWED_FIELDS, ALLOWED_FIELDS \ {"units"}}

NoError == [kind |-> "none"]

(* The text of a CSV field is a sequence of characters.  int() and float() *)
(* are modelled on plain decimal text: digits, and for float digits with   *)
(* one "." among them; any other text makes them raise ValueError.         *)
DigitValue ==
    ("0" :> 0) @@ ("1" :> 1) @@ ("2" :> 2) @@ ("3" :> 3) @@ ("4" :> 4) @@
    ("5" :> 5) @@ ("6" :> 6) @@ ("7" :> 7) @@ ("8" :> 8) @@ ("9" :> 9)

IsDigits(text) == \A i \in DOMAIN text : text[i] \in DOMAIN DigitValue

RECURSIVE DigitsValue(_)
DigitsValue(text) ==
    IF text = <<>> THEN 0
    ELSE 10 * DigitsValue(SubSeq(text, 1, Len(text) - 1))
           + DigitValue[text[Len(text)]]

RECURSIVE PowerOfTen(_)
PowerOfTen(n) == IF n = 0 THEN 1 ELSE 10 * PowerOfTen(n - 1)

(* int(value) succeeds *)
ParsesAsInt(text) == text # <<>> /\ IsDigits(text)

(* positions of a "." that splits the text into digits "." digits *)
PointAt(text) ==
    {k \in DOMAIN text :
        /\ text[k] = "."
        /\ Len(text) > 1
        /\ IsDigits(SubSeq(text, 1, k - 1))
        /\ IsDigits(SubSeq(text, k + 1, Len(text)))}

(* float(value) succeeds *)
ParsesAsFloat(text) == ParsesAsInt(text) \/ PointAt(text) # {}

(* float(value), as an exact number *)
ParseFloat(text) ==
    IF ParsesAsInt(text) THEN RInt(DigitsValue(text))
    ELSE LET k == CHOOSE x \in PointAt(text) : TRUE
             frac == SubSeq(text, k + 1, Len(text))
         IN RNorm(DigitsValue(SubSeq(text, 1, k - 1)) * PowerOfTen(Len(frac))
                     + DigitsValue(frac),
                  PowerOfTen(Len(frac)))

(* _parse_value: tick and units go through int(), price through float(),   *)
(* both unguarded; any other field is int(value) if that succeeds, else    *)
(* the text itself                                                         *)
ParseValue(field, text) ==
    IF field \in {"tick", "units"}
    THEN IF ParsesAsInt(text)
         THEN [raised |-> FALSE, value |-> DigitsValue(text)]
         ELSE [raised |-> TRUE, value |-> text]
    ELSE IF field = "price"
    THEN IF ParsesAsFloat(text)
         THEN [raised |-> FALSE, value |-> ParseFloat(text)]
         ELSE [raised |-> TRUE, value |-> text]
    ELSE IF ParsesAsInt(text)
         THEN [raised |-> FALSE, value |-> DigitsValue(text)]
         ELSE [raised |-> FALSE, value |-> text]

TickTexts == {<<"1">>, <<"2">>, <<"3">>, <<>>}
AgentTexts == {<<"1">>, <<"2">>}
PriceTexts == {<<"1", ".", "5">>, <<"x">>, <<>>}

(* the columns of the ledger file the model follows, in header order *)
Columns == <<"tick", "agent_id", "price">>

(* the rows of the ledger file, as text *)
Rows == [tick : TickTexts, agent_id : AgentTexts, price : PriceTexts]

EngInit ==
    /\ eng_pc = "new"
    /\ rules = <<>>
    /\ allowed_fields = {}
    /\ error = NoError
    /\ trades = <<>>
    /\ all_ticks = <<>>
    /\ all_agents = {}
    /\ combined_suspicions = EmptyMap
    /\ rule_idx = 0
    /\ emitted = {}
    /\ outs = EmptyMap
    /\ csv_rows = <<>>

EngIdle ==
    /\ eng_pc = "idle"
    /\ rules = <<>>
    /\ allowed_fields = {}
    /\ error = NoError
    /\ trades = <<>>
    /\ all_ticks = <<>>
    /\ all_agents = {}
    /\ combined_suspicions = EmptyMap
    /\ rule_idx = 0
    /\ emitted = {}
    /\ outs = EmptyMap
    /\ csv_rows = <<>>

(* a check that passes a rule as soon as one of its fields is allowed *)
FieldsAllowedAny(rule_fields, allowed) == rule_fields \cap allowed # {}

(* rule_fields.issubset(self.allowed_fields) *)
FieldsAllowed(rule_fields, allowed) == rule_fields \subseteq allowed

(* positions of the rules the constructor's loop rejects *)
Rejected(rs, allowed) ==
    {i \in DOMAIN rs : ~FieldsAllowed(rs[i].fields, allowed)}

SetMin(S) == CHOOSE x \in S : \A y \in S : x <= y
SetMax(S) == CHOOSE x \in S : \A y \in S : x >= y

(* ArbitrageDetectionEngine.__init__: the first rejected rule raises *)
Construct(rs, allowed) ==
    /\ eng_pc = "new"
    /\ rules' = rs
    /\ allowed_fields' = allowed
    /\ IF Rejected(rs, allowed) # {}
       THEN /\ error' = [kind |-> "ValueError",
                         rule |-> rs[SetMin(Rejected(rs, allowed))].name]
            /\ eng_pc' = "error"
       ELSE /\ error' = NoError
            /\ eng_pc' = "load"
    /\ UNCHANGED <<trades, all_ticks, all_agents, combined_suspicions,
                   rule_idx, emitted, outs, csv_rows>>
    /\ UNCHANGED <<simVars, ruleVars, runs, stratVars, auxVars>>

(* the columns of a row _load_trades parses: those in allowed_fields *)
Kept(allowed) == {i \in DOMAIN Columns : Columns[i] \in allowed}

(* the columns of the row on which _parse_value raises *)
Failing(row, allowed) ==
    {i \in Kept(allowed) : ParseValue(Columns[i], row[Columns[i]]).raised}

(* the dict _load_trades appends for a row that parses *)
Filtered(row, allowed) ==
    [f \in {Columns[i] : i \in Kept(allowed)} |-> ParseValue(f, row[f]).value]

(* _load_trades: one more row of the CSV file; the ledger is in the order *)
(* the simulation wrote it, by tick.  A field int() or float() cannot     *)
(* parse raises ValueError out of _load_trades and the script ends.       *)
LoadRow(row) ==
    /\ eng_pc = "load"
    /\ Len(trades) < MaxRows
    /\ IF Failing(row, allowed_fields) # {}
       THEN LET f == Columns[SetMin(Failing(row, allowed_fields))]
            IN /\ error' = [kind |-> "ValueError", field |-> f, text |-> row[f]]
               /\ eng_pc' = "error"
               /\ UNCHANGED trades
       ELSE /\ trades # <<>> =>
                  Filtered(row, allowed_fields).tick >= trades[Len(trades)].tick
            /\ trades' = Append(trades, Filtered(row, allowed_fields))
            /\ UNCHANGED <<eng_pc, error>>
    /\ UNCHANGED <<rules, allowed_fields, all_ticks,
                   all_agents, combined_suspicions, rule_idx, emitted, outs,
                   csv_rows>>
    /\ UNCHANGED <<simVars, ruleVars, runs, stratVars, auxVars>>

RECURSIVE SortedSeq(_)
(* sorted(S) for a set of integers *)
SortedSeq(S) ==
    IF S = {} THEN <<>>
    ELSE LET lo == SetMin(S) IN <<lo>> \o SortedSeq(S \ {lo})

(* _organize_trades: sorted(all_ticks) *)
OrganizeTicks(ts) == SortedSeq({ts[i].tick : i \in DOMAIN ts})

(* _organize_trades: all_agents *)
OrganizeAgents(ts) == {ts[i].agent_id : i \in DOMAIN ts}

(* detect, up to the loop over the rules *)
StartDetect ==
    /\ eng_pc = "load"
    /\ all_ticks' = OrganizeTicks(trades)
    /\ all_agents' = OrganizeAgents(trades)
    /\ combined_suspicions' = [a \in OrganizeAgents(trades) |-> EmptyMap]
    /\ rule_idx' = 1
    /\ emitted' = {}
    /\ eng_pc' = "detect"
    /\ UNCHANGED <<rules, allowed_fields, error, trades, outs, csv_rows>>
    /\ UNCHANGED <<simVars, ruleVars, runs, stratVars, auxVars>>

(* a combination that keeps the larger of the two probabilities *)
CombineStepMax(prev_prob, prob) == RMax(prev_prob, prob)

(* a combination that keeps the probability of the rule applied last *)
CombineStepLatest(prev_prob, prob) == prob

(* a combination that forgets to complement the new probability *)
CombineStepNoComplement(prev_prob, prob) ==
    RSub(One, RMul(RSub(One, prev_prob), prob))

(* new_prob = 1 - (1 - prev_prob) * (1 - prob) *)
CombineStep(prev_prob, prob) ==
    RSub(One, RMul(RSub(One, prev_prob), RSub(One, prob)))

RECURSIVE SumLen(_, _)
SumLen(m, keys) ==
    IF keys = {} THEN 0
    ELSE LET k == CHOOSE x \in keys : TRUE
         IN Len(m[k]) + SumLen(m, keys \ {k})

(* number of rule outputs combined so far *)
NumOutputs(m) == SumLen(m, DOMAIN m)

(* detect: one (agent, tick, prob) item of the current rule's output *)
RuleOutput(a, tk, prob) ==
    /\ eng_pc = "detect"
    /\ rule_idx <= Len(rules)
    /\ a \in all_agents
    /\ \E i \in DOMAIN all_ticks : all_ticks[i] = tk
    /\ <<a, tk>> \notin emitted
    /\ NumOutputs(outs) < MaxOutputs
    /\ LET prev_prob == MapGet(combined_suspicions[a], tk, Zero)
       IN combined_suspicions' =
            [combined_suspicions EXCEPT
               ![a] = MapPut(@, tk, CombineStep(prev_prob, prob))]
    /\ emitted' = emitted \cup {<<a, tk>>}
    /\ outs' = MapPut(outs, <<a, tk>>,
                      Append(MapGet(outs, <<a, tk>>, <<>>), prob))
    /\ UNCHANGED <<eng_pc, rules, allowed_fields, error, trades, all_ticks,
                   all_agents, rule_idx, csv_rows>>
    /\ UNCHANGED <<simVars, ruleVars, runs, stratVars, auxVars>>

(* detect: the loop moves on to the next rule *)
NextRule ==
    /\ eng_pc = "detect"
    /\ rule_idx <= Len(rules)
    /\ rule_idx' = rule_idx + 1
    /\ emitted' = {}
    /\ UNCHANGED <<eng_pc, rules, allowed_fields, error, trades, all_ticks,
                   all_agents, combined_suspicions, outs, csv_rows>>
    /\ UNCHANGED <<simVars, ruleVars, runs, stratVars, auxVars>>

(* f"{prob:.3f}": the nearest thousandth, a tie going to the even one *)
FormatProb(prob) ==
    LET n == prob[1] * OutputScale
        q == n \div prob[2]
        r == n % prob[2]
    IN IF 2 * r > prob[2] \/ (2 * r = prob[2] /\ q % 2 = 1) THEN q + 1 ELSE q

(* the row save_to_csv writes for a tick: the tick and one cell per agent *)
CsvRow(cs, tk, agents) ==
    [tick |-> tk,
     cells |-> [a \in agents |->
                  FormatProb(MapGet(MapGet(cs, a, EmptyMap), tk, Zero))]]

(* detect returns; save_to_csv writes one row per tick of all_ticks *)
SaveToCsv ==
    /\ eng_pc = "detect"
    /\ rule_idx > Len(rules)
    /\ csv_rows' = [i \in DOMAIN all_ticks |->
                      CsvRow(combined_suspicions, all_ticks[i], all_agents)]
    /\ eng_pc' = "saved"
    /\ UNCHANGED <<rules, allowed_fields, error, trades, all_ticks,
                   all_agents, combined_suspicions, rule_idx, emitted, outs>>
    /\ UNCHANGED <<simVars, ruleVars, runs, stratVars, auxVars>>

EngineNext ==
    \/ \E rs \in RuleLists, allowed \in AllowedSets : Construct(rs, allowed)
    \/ \E row \in Rows : LoadRow(row)
    \/ StartDetect
    \/ \E a \in EngAgents, tk \in EngTicks, prob \in ProbGrid :
          RuleOutput(a, tk, prob)
    \/ NextRule
    \/ SaveToCsv

-----------------------------------------------------------------------------
(* The random sources of a run.  model.py draws the bias direction and the  *)
(* price increment from the module-level generator of Python's random       *)
(* (random.choice, random.gauss); the agents are shuffled by the model's    *)
(* own generator, which mesa.Model.__init__ creates and which shuffle_do    *)
(* uses.  AssetMarket.__init__ takes no seed and passes none on, and the    *)
(* run scripts never call random.seed.  Two runs with the same parameters   *)
(* are followed side by side: the caller may have seeded the module-level   *)
(* generator with the same seed before both, or not at all; a generator     *)
(* nobody seeds starts from the operating system's entropy.                 *)

(* Bound of the model: ticks of each of the two runs *)
MaxRunTicks == 3

(* states of a generator: a linear congruential generator modulo 8 stands   *)
(* for the Mersenne Twister                                                 *)
Entropy == 0 .. 7
NoSeed == 8
NextRandom(x) == (5 * x + 3) % 8

(* random.choice([1, -1]), random.gauss(0, 1) on the grid, and the order    *)
(* shuffle_do steps the agents in, each a function of the generator state   *)
Choice(x) == IF x % 2 = 0 THEN 1 ELSE -1
Gauss(x) == (x % 3) - 1
Shuffle(x) == IF (x \div 2) % 2 = 0 THEN <<1, 2>> ELSE <<2, 1>>

RunIds == {1, 2}

(* a run that has not started: the generators as they are seeded *)
StartRun(seed, entropy, mesa_entropy) ==
    [seed |-> seed,
     random |-> IF seed = NoSeed THEN entropy ELSE seed,
     model_random |-> mesa_entropy,
     tick |-> 0, price |-> 200, bias_direction |-> 0,
     path |-> <<200>>, orders |-> <<>>]

SeedInit ==
    \E seed \in Entropy \cup {NoSeed}, e \in [RunIds -> Entropy],
       me \in [RunIds -> Entropy] :
        runs = [r \in RunIds |-> StartRun(seed, e[r], me[r])]

SeedIdle == runs = <<>>

(* AssetMarket.step of run r: the draws of the clock, then the shuffle *)
RunStep(r) ==
    LET run == runs[r]
        tk == run.tick + 1
        newCycle == NewCycle(tk)
        g1 == IF newCycle THEN NextRandom(run.random) ELSE run.random
        dir == IF newCycle THEN Choice(run.random) ELSE run.bias_direction
        change == Gauss(g1) + BiasDrift * dir
    IN /\ run.tick < MaxRunTicks
       /\ runs' = [runs EXCEPT ![r] =
                     [run EXCEPT !.tick = tk,
                                 !.bias_direction = dir,
                                 !.random = NextRandom(g1),
                                 !.price = WalkPrice(run.price, change),
                                 !.path = Append(run.path,
                                                 WalkPrice(run.price, change)),
                                 !.model_random = NextRandom(run.model_random),
                                 !.orders = Append(run.orders,
                                                   Shuffle(run.model_random))]]
       /\ UNCHANGED <<simVars, detVars, stratVars, auxVars>>

SeedNext == \E r \in RunIds : RunStep(r)

SeedStart == SimIdle /\ RuleIdle /\ EngIdle /\ SeedInit /\ StratIdle /\ AuxIdle

SeedSpec == SeedStart /\ [][SeedNext]_vars

EngineInit == SimIdle /\ RuleIdle /\ EngInit /\ SeedIdle /\ StratIdle /\ AuxIdle

EngineSpec == EngineInit /\ [][EngineNext]_vars

RuleStart == SimIdle /\ RuleInit /\ EngIdle /\ SeedIdle /\ StratIdle /\ AuxIdle

RuleSpec == RuleStart /\ [][RuleNext]_vars

-----------------------------------------------------------------------------
(* The strategies of strategies.py, followed by the agents of a market of   *)
(* one TrendFollowingStrategy agent and one ArbitrageStrategy agent         *)
(* (AssetMarket(num_agents=1, num_arbitrage_agents=1)).  Prices and cash    *)
(* are in halves of a currency unit; thresholds are exact rationals in     *)
(* currency units.                                                          *)

TrendAgent == 1
ArbitrageAgent == 2

Thresholds == {Half, <<3, 2>>}
Sensitivities == {One, <<2, 1>>}
Aggressiveness == {<<4, 5>>, One}

(* abs() of a rational *)
RAbs(x) == <<Abs(x[1]), x[2]>>

(* int() of a rational: truncation toward zero *)
Trunc(x) == IF x[1] >= 0 THEN x[1] \div x[2] ELSE 0 - ((0 - x[1]) \div x[2])

(* TrendFollowingStrategy.__init__ *)
TrendFollowingStrategy(threshold, sensitivity) ==
    [name |-> "TrendFollowingStrategy", threshold |-> threshold,
     sensitivity |-> sensitivity]

(* ArbitrageStrategy.__init__ *)
ArbitrageStrategy(aggressiveness) ==
    [name |-> "ArbitrageStrategy", aggressiveness |-> aggressiveness,
     last_bias_active |-> FALSE, last_bias_direction |-> 0]

(* what a call of decide_action leaves behind: it raised or returned intent *)
(* (NoIntent for None), and the strategy object is in state                 *)
Returns(intent, state) == [raised |-> FALSE, intent |-> intent, state |-> state]
Raises(state) == [raised |-> TRUE, intent |-> NoIntent, state |-> state]

(* int(sensitivity * max(0, abs(price_diff) - threshold)) + 1 *)
TrendUnits(st, price_diff) ==
    Trunc(RMul(st.sensitivity,
               RMax(Zero, RSub(RAbs(price_diff), st.threshold)))) + 1

(* TrendFollowingStrategy.decide_action *)
TrendDecide(st) ==
    LET price_diff == RNorm(price - last_price, 2)
    IN IF RLt(RAbs(price_diff), st.threshold)
       THEN Returns(NoIntent, st)
       ELSE IF price_diff[1] > 0
            THEN Returns([action |-> "buy",
                          units |-> TrendUnits(st, price_diff)], st)
            ELSE IF price_diff[1] < 0
                 THEN Returns([action |-> "sell",
                               units |-> TrendUnits(st, price_diff)], st)
                 ELSE Returns(NoIntent, st)

(* MeanReversionStrategy.__init__ *)
MeanReversionStrategy(threshold, sensitivity) ==
    [name |-> "MeanReversionStrategy", threshold |-> threshold,
     sensitivity |-> sensitivity]

(* a trade size without the + 1 *)
MeanReversionUnitsNoFloor(st, price_diff) ==
    Trunc(RMul(st.sensitivity,
               RMax(Zero, RSub(RAbs(price_diff), st.threshold))))

(* int(sensitivity * max(0, abs(price_diff) - threshold)) + 1 *)
MeanReversionUnits(st, price_diff) ==
    Trunc(RMul(st.sensitivity,
               RMax(Zero, RSub(RAbs(price_diff), st.threshold)))) + 1

(* MeanReversionStrategy.decide_action *)
MeanReversionDecide(st) ==
    LET price_diff == RNorm(price - last_price, 2)
    IN IF RLt(RAbs(price_diff), st.threshold)
       THEN Returns(NoIntent, st)
       ELSE IF price_diff[1] < 0
            THEN Returns([action |-> "buy",
                          units |-> MeanReversionUnits(st, price_diff)], st)
            ELSE IF price_diff[1] > 0
                 THEN Returns([action |-> "sell",
                               units |-> MeanReversionUnits(st, price_diff)],
                              st)
                 ELSE Returns(NoIntent, st)

(* int(self.aggressiveness * n) *)
Scaled(st, n) == Trunc(RMul(st.aggressiveness, RInt(n)))

(* ArbitrageStrategy.decide_action, lines 183-199: the block taken when a   *)
(* cycle has just started and the bias is active.  agent.cash // price      *)
(* raises ZeroDivisionError at price 0.                                     *)
ArbitrageOnset(st, a) ==
    IF NewCycle(tick) /\ bias_active
    THEN IF bias_direction = 1
         THEN IF price = 0
              THEN [raised |-> TRUE, action |-> "none", units |-> 0]
              ELSE LET units == Scaled(st, cash[a] \div price)
                   IN [raised |-> FALSE,
                       action |-> IF units > 0 THEN "buy" ELSE "none",
                       units |-> units]
         ELSE IF bias_direction = -1 /\ holdings[a] > 0
              THEN LET units == Scaled(st, holdings[a])
                   IN [raised |-> FALSE, action |-> "sell",
                       units |-> IF units = 0 THEN 1 ELSE units]
              ELSE [raised |-> FALSE, action |-> "none", units |-> 0]
    ELSE [raised |-> FALSE, action |-> "none", units |-> 0]

(* ArbitrageStrategy.decide_action, lines 203-216: the block taken when the *)
(* bias was active at the last call and is not active now; so far is what   *)
(* the first block left in action and units                                 *)
ArbitrageOffset(st, a, sofar) ==
    IF sofar.raised \/ ~(st.last_bias_active /\ ~bias_active)
    THEN sofar
    ELSE IF st.last_bias_direction = 1
         THEN IF holdings[a] > 0
              THEN [raised |-> FALSE, action |-> "sell", units |-> holdings[a]]
              ELSE sofar
         ELSE IF st.last_bias_direction = -1
              THEN IF price = 0
                   THEN [raised |-> TRUE, action |-> "none", units |-> 0]
                   ELSE LET units == Scaled(st, cash[a] \div price)
                        IN [raised |-> FALSE,
                            action |-> IF units > 0 THEN "buy"
                                       ELSE sofar.action,
                            units |-> units]
              ELSE sofar

(* ArbitrageStrategy.decide_action: the two blocks, then the memory of the  *)
(* bias is updated (not reached when the call raised) and the action, if    *)
(* any, is returned with its units                                          *)
ArbitrageDecide(st, a) ==
    LET out == ArbitrageOffset(st, a, ArbitrageOnset(st, a))
    IN IF out.raised
       THEN Raises(st)
       ELSE Returns(IF out.action # "none"
                    THEN [action |-> out.action, units |-> out.units]
                    ELSE NoIntent,
                    [st EXCEPT !.last_bias_active = bias_active,
                               !.last_bias_direction =
                                   IF bias_active THEN bias_direction ELSE 0])

(* The strategies that read model.price_history.  At the moment the agents *)
(* of tick t are stepped the list holds the initial price followed by the  *)
(* prices at the end of ticks 1 .. t-1: the price of tick t is appended     *)
(* after the agents (model.py:76).                                          *)

MomentumAgent == 1
WindowAgent == 2

Lookbacks == {1, 2}
Windows == {1, 2, 3}

(* MomentumStrategy.__init__ *)
MomentumStrategy(lookback, threshold, sensitivity) ==
    [name |-> "MomentumStrategy", lookback |-> lookback,
     threshold |-> threshold, sensitivity |-> sensitivity]

(* BreakoutStrategy.__init__ *)
BreakoutStrategy(window, threshold) ==
    [name |-> "BreakoutStrategy", window |-> window, threshold |-> threshold]

(* ValueInvestingStrategy.__init__ *)
ValueInvestingStrategy(window, threshold, sensitivity) ==
    [name |-> "ValueInvestingStrategy", window |-> window,
     threshold |-> threshold, sensitivity |-> sensitivity]

(* a price of the model, kept in halves, as a number of currency units *)
Currency(p) == RNorm(p, 2)

(* model.price_history[-1 - lookback] *)
OldPrice(h, lookback) == h[Len(h) - lookback]

(* MomentumStrategy.decide_action once old_price is known, at the price    *)
(* current_price                                                            *)
MomentumOn(st, old_price, current_price) ==
         LET price_change == Currency(current_price - old_price)
             units == Trunc(RMul(st.sensitivity,
                                 RMax(Zero, RSub(RAbs(price_change),
                                                 st.threshold)))) + 1
         IN IF RLt(RAbs(price_change), st.threshold)
            THEN Returns(NoIntent, st)
            ELSE IF price_change[1] > 0
                 THEN Returns([action |-> "buy", units |-> units], st)
                 ELSE IF price_change[1] < 0
                      THEN Returns([action |-> "sell", units |-> units], st)
                      ELSE Returns(NoIntent, st)

(* MomentumStrategy.decide_action *)
MomentumDecide(st) ==
    IF Len(price_history) < st.lookback + 1
    THEN Returns(NoIntent, st)
    ELSE MomentumOn(st, OldPrice(price_history, st.lookback), price)

(* a Python slice h[-n:]: the last n entries, all of h if n is 0 or more    *)
(* than its length                                                          *)
LastN(h, n) ==
    IF n = 0 THEN h ELSE SubSeq(h, Max(1, Len(h) - n + 1), Len(h))

(* a window sized min(window, history_len) *)
RecentPricesWholeHistory(window, h) ==
    IF Len(h) < 2 THEN <<>> ELSE LastN(h, Min(window, Len(h)))

(* recent_prices of BreakoutStrategy and ValueInvestingStrategy: nothing    *)
(* with fewer than 2 entries, else price_history[-window_size:] with        *)
(* window_size = min(window, history_len - 1)                               *)
RecentPrices(window, h) ==
    IF Len(h) < 2 THEN <<>> ELSE LastN(h, Min(window, Len(h) - 1))

(* max(), min() and sum() of a list of prices *)
SeqMaximum(ps) == SetMax({ps[i] : i \in DOMAIN ps})
SeqMinimum(ps) == SetMin({ps[i] : i \in DOMAIN ps})
RECURSIVE SeqSum(_)
SeqSum(ps) == IF ps = <<>> THEN 0 ELSE Head(ps) + SeqSum(Tail(ps))

(* BreakoutStrategy.decide_action once recent_prices is known, at the      *)
(* price price_now                                                          *)
BreakoutOn(st, recent_prices, price_now) ==
    IF recent_prices = <<>>
    THEN Returns(NoIntent, st)
    ELSE LET above == RAdd(Currency(SeqMaximum(recent_prices)), st.threshold)
             below == RSub(Currency(SeqMinimum(recent_prices)), st.threshold)
             current_price == Currency(price_now)
         IN IF RLt(above, current_price)
            THEN Returns([action |-> "buy",
                          units |-> Trunc(RAdd(One, RSub(current_price,
                                                         above)))], st)
            ELSE IF RLt(current_price, below)
                 THEN Returns([action |-> "sell",
                               units |-> Trunc(RAdd(One, RSub(below,
                                                    current_price)))], st)
                 ELSE Returns(NoIntent, st)

(* BreakoutStrategy.decide_action *)
BreakoutDecide(st) ==
    BreakoutOn(st, RecentPrices(st.window, price_history), price)

(* ValueInvestingStrategy.decide_action once recent_prices is known, at    *)
(* the price price_now                                                      *)
ValueOn(st, recent_prices, price_now) ==
    IF recent_prices = <<>>
    THEN Returns(NoIntent, st)
    ELSE LET fair_value == RNorm(SeqSum(recent_prices),
                                 2 * Len(recent_prices))
             deviation == RSub(Currency(price_now), fair_value)
             units == Trunc(RMul(st.sensitivity,
                                 RMax(Zero, RSub(RAbs(deviation),
                                                 st.threshold)))) + 1
         IN IF RLt(RAbs(deviation), st.threshold)
            THEN Returns(NoIntent, st)
            ELSE IF deviation[1] < 0
                 THEN Returns([action |-> "buy", units |-> units], st)
                 ELSE IF deviation[1] > 0
                      THEN Returns([action |-> "sell", units |-> units], st)
                      ELSE Returns(NoIntent, st)

(* ValueInvestingStrategy.decide_action *)
ValueInvestingDecide(st) ==
    ValueOn(st, RecentPrices(st.window, price_history), price)

(* self.strategy.decide_action(self, self.model) *)
DecideAction(a) ==
    IF strategy[a].name = "TrendFollowingStrategy"
    THEN TrendDecide(strategy[a])
    ELSE IF strategy[a].name = "MeanReversionStrategy"
    THEN MeanReversionDecide(strategy[a])
    ELSE IF strategy[a].name = "MomentumStrategy"
    THEN MomentumDecide(strategy[a])
    ELSE IF strategy[a].name = "BreakoutStrategy"
    THEN BreakoutDecide(strategy[a])
    ELSE IF strategy[a].name = "ValueInvestingStrategy"
    THEN ValueInvestingDecide(strategy[a])
    ELSE ArbitrageDecide(strategy[a], a)

(* TraderAgent.step of an agent that follows its strategy object: the call  *)
(* of decide_action and the early returns before the fill loop.  decision   *)
(* keeps the call: what the agent and the market were, what came back.      *)
StrategyDecide(a) ==
    /\ pc = "agents"
    /\ a \in todo
    /\ LET d == DecideAction(a)
       IN /\ decision' = [agent |-> a, tick |-> tick, before |-> strategy[a],
                          bias_active |-> bias_active,
                          bias_direction |-> bias_direction,
                          holdings |-> holdings[a], cash |-> cash[a],
                          price |-> price, price_history |-> price_history,
                          raised |-> d.raised, intent |-> d.intent]
          /\ strategy' = [strategy EXCEPT ![a] = d.state]
          /\ IF d.raised
             THEN /\ raised' = TRUE
                  /\ UNCHANGED <<price_impact, tick, price, last_price,
                                 baseline_price, bias_direction, bias_active,
                                 trades_this_tick, cash, holdings, records,
                                 todo, order, pc>>
             ELSE /\ TakeDecision(a, d.intent)
                  /\ UNCHANGED raised
    /\ UNCHANGED <<norders, price_history, detVars, runs, auxVars>>

(* the strategy classes the first agent is built with, as constructors     *)
SignalStrategies ==
    {[th \in Thresholds, se \in Sensitivities |->
         TrendFollowingStrategy(th, se)],
     [th \in Thresholds, se \in Sensitivities |->
         MeanReversionStrategy(th, se)]}

(* AssetMarket.__init__ with its strategy objects *)
StratInit ==
    /\ \E th \in Thresholds, se \in Sensitivities, ag \in Aggressiveness,
          sc \in SignalStrategies :
          strategy = [a \in Agents |->
                         IF a = TrendAgent
                         THEN sc[th, se]
                         ELSE ArbitrageStrategy(ag)]
    /\ decision = NoDecision

(* The run as Python executes it: an exception that leaves TraderAgent.step *)
(* leaves AssetMarket.step and the loop of run.py, and nothing runs after   *)
(* it.  No sell is filled before the first exception: a filled order of     *)
(* either kind raises in logger.log, and holdings start at 0.               *)
StrictMarketStep ==
    ~raised /\ \E dir \in {1, -1}, shock \in Shocks : MarketStep(dir, shock)

StrictDecide == ~raised /\ \E a \in Agents : StrategyDecide(a)

StrictBuyUnit == ~raised /\ BuyUnit

StrictFinishOrder == ~raised /\ FinishOrder

StrictEndTick == ~raised /\ EndTick

StratNext ==
    \/ StrictMarketStep
    \/ StrictDecide
    \/ StrictBuyUnit
    \/ StrictFinishOrder
    \/ StrictEndTick

StratStart ==
    SimInit /\ HistIdle /\ RuleIdle /\ EngIdle /\ SeedIdle /\ StratInit /\ AuxIdle

StratSpec == StratStart /\ [][StratNext]_vars

-----------------------------------------------------------------------------
(* A market of one MomentumStrategy agent and one agent that is either a    *)
(* BreakoutStrategy or a ValueInvestingStrategy, with the price history     *)
(* followed.  The run is strict, as in StratSpec.                           *)

(* Bound of the model: ticks of a run that follows the price history *)
MaxHistoryTicks == 4

(* the strategy classes of the second agent, as constructors *)
WindowStrategies ==
    {[w \in Windows, th \in Thresholds, se \in Sensitivities |->
         BreakoutStrategy(w, th)],
     [w \in Windows, th \in Thresholds, se \in Sensitivities |->
         ValueInvestingStrategy(w, th, se)]}

(* AssetMarket.__init__ with these strategy objects *)
HistStratInit ==
    /\ \E lb \in Lookbacks, w \in Windows, th \in Thresholds,
          se \in Sensitivities, wc \in WindowStrategies :
          strategy = [a \in Agents |->
                         IF a = MomentumAgent
                         THEN MomentumStrategy(lb, th, se)
                         ELSE wc[w, th, se]]
    /\ decision = NoDecision

HistMarketStep == tick < MaxHistoryTicks /\ StrictMarketStep

HistEndTick == ~raised /\ RecordedEndTick

HistNext ==
    \/ HistMarketStep
    \/ StrictDecide
    \/ StrictBuyUnit
    \/ StrictFinishOrder
    \/ HistEndTick

HistStart ==
    SimInit /\ HistInit /\ RuleIdle /\ EngIdle /\ SeedIdle /\ HistStratInit /\ AuxIdle

HistSpec == HistStart /\ [][HistNext]_vars

Init == SimInit /\ HistIdle /\ RuleIdle /\ EngIdle /\ SeedIdle /\ StratIdle /\ AuxIdle

Next ==
    \/ \E dir \in {1, -1}, shock \in Shocks : MarketStep(dir, shock)
    \/ \E a \in Agents, intent \in Intents : AgentDecide(a, intent)
    \/ BuyUnit
    \/ SellUnit
    \/ FinishOrder
    \/ EndTick

Spec == Init /\ [][Next]_vars

(* The same run, remembering the order that ended last: who placed it, what *)
(* it asked for and filled, and the cash, holdings and price before and     *)
(* after it.                                                                *)
RememberedFinishOrder ==
    /\ StepReturns
    /\ ended' = [agent |-> order.agent, action |-> order.action,
                 units |-> order.units, actual_units |-> order.actual_units,
                 start_price |-> order.start_price,
                 cash_before |-> order.cash_before,
                 holdings_before |-> order.holdings_before,
                 end_price |-> price, cash_after |-> cash[order.agent],
                 holdings_after |-> holdings[order.agent]]
    /\ UNCHANGED <<price_history, detVars, runs, stratVars, pred, logger,
                   batch>>

FillNext ==
    \/ \E dir \in {1, -1}, shock \in Shocks : MarketStep(dir, shock)
    \/ \E a \in Agents, intent \in Intents : AgentDecide(a, intent)
    \/ BuyUnit
    \/ SellUnit
    \/ RememberedFinishOrder
    \/ EndTick

FillStart ==
    SimInit /\ HistIdle /\ RuleIdle /\ EngIdle /\ SeedIdle /\ StratIdle /\ AuxIdle

FillSpec == FillStart /\ [][FillNext]_vars

-----------------------------------------------------------------------------
(* PredictiveTradeRule.detect (rules.py) on the structures that            *)
(* ArbitrageDetectionEngine._organize_trades (main.py) builds from a       *)
(* ledger.  Prices are whole currency units here and arithmetic is exact.  *)

(* Bound of the model: trades in the ledger *)
MaxPredTrades == 2

PredTicks == {1, 2, 4}
PredAgents == {1, 2}
PredPrices == {1, 2}
PredWindows == {1, 2}
PredThresholds == {Zero, Half}

PredTrades == [tick : PredTicks, agent_id : PredAgents,
               action : {"buy", "sell"}, price : PredPrices]

NoPredTrade == [tick |-> NoTick, agent_id |-> 0, action |-> "none", price |-> 0]

(* PredictiveTradeRule.__init__, and an empty ledger *)
PredInit ==
    \E w \in PredWindows, th \in PredThresholds :
        pred = [pc |-> "load", window |-> w, threshold |-> th,
                ledger |-> <<>>, price_by_tick |-> EmptyMap, queue |-> <<>>,
                suspicions |-> [a \in PredAgents |-> EmptyMap],
                output |-> EmptyMap,
                last |-> [trade |-> NoPredTrade, before |-> EmptyMap]]

(* the ticks that have a trade in the ledger *)
TradedTicks(ledger) == {ledger[i].tick : i \in DOMAIN ledger}

(* price_by_tick[tick] = price for every trade in ledger order: the price  *)
(* of the last trade of the tick                                            *)
LastPriceAt(ledger, t) ==
    ledger[SetMax({i \in DOMAIN ledger : ledger[i].tick = t})].price

RECURSIVE CarriedPrice(_, _)
(* the price of tick t after the gaps are filled: that of the tick's last  *)
(* trade, else the price carried forward from the tick before               *)
CarriedPrice(ledger, t) ==
    IF t \in TradedTicks(ledger)
    THEN LastPriceAt(ledger, t)
    ELSE CarriedPrice(ledger, t - 1)

(* a price_by_tick whose gaps are not filled *)
PriceByTickNoFill(ledger) ==
    [t \in TradedTicks(ledger) |-> LastPriceAt(ledger, t)]

(* price_by_tick of _organize_trades: a price for every tick from the      *)
(* first to the last tick of the ledger                                     *)
PriceByTick(ledger) ==
    IF ledger = <<>>
    THEN EmptyMap
    ELSE [t \in SetMin(TradedTicks(ledger)) .. SetMax(TradedTicks(ledger))
             |-> CarriedPrice(ledger, t)]

RECURSIVE AgentOrder(_)
(* the keys of trades_by_agent in insertion order: agents by first trade   *)
AgentOrder(ledger) ==
    IF ledger = <<>>
    THEN <<>>
    ELSE LET rest == AgentOrder(SubSeq(ledger, 1, Len(ledger) - 1))
             a == ledger[Len(ledger)].agent_id
         IN IF \E i \in DOMAIN rest : rest[i] = a THEN rest
            ELSE Append(rest, a)

(* trades_by_agent[a]: the agent's trades in ledger order *)
TradesOf(ledger, a) ==
    LET Mine(tr) == tr.agent_id = a IN SelectSeq(ledger, Mine)

RECURSIVE ByTick(_, _)
(* the trades ts, tick by tick along the sorted ticks, ledger order kept   *)
(* within a tick                                                            *)
ByTick(ts, ticks) ==
    IF ticks = <<>>
    THEN <<>>
    ELSE LET At(tr) == tr.tick = Head(ticks)
         IN SelectSeq(ts, At) \o ByTick(ts, Tail(ticks))

(* trades.sort(key=lambda x: x["tick"]): a stable sort *)
SortByTick(ts) == ByTick(ts, SortedSeq(TradedTicks(ts)))

RECURSIVE DetectOrder(_, _)
(* the trades in the order the two loops of detect take them *)
DetectOrder(ledger, agents) ==
    IF agents = <<>>
    THEN <<>>
    ELSE SortByTick(TradesOf(ledger, Head(agents)))
            \o DetectOrder(ledger, Tail(agents))

(* future_price >= price * (1 + threshold) for a buy,                      *)
(* future_price <= price * (1 - threshold) for a sell                      *)
Favorable(tr, future_price, threshold) ==
    IF tr.action = "buy"
    THEN RLe(RMul(RInt(tr.price), RAdd(One, threshold)), RInt(future_price))
    ELSE IF tr.action = "sell"
         THEN RLe(RInt(future_price),
                  RMul(RInt(tr.price), RSub(One, threshold)))
         ELSE FALSE

RECURSIVE LookAhead(_, _, _, _, _)
(* the loop over future_tick from future_tick to last_tick: it ends with a *)
(* flag at the first favorable price and without one at the first tick     *)
(* that has no price                                                        *)
LookAhead(tr, future_tick, last_tick, price_by_tick, threshold) ==
    IF future_tick > last_tick
    THEN FALSE
    ELSE IF future_tick \in DOMAIN price_by_tick
         THEN IF Favorable(tr, price_by_tick[future_tick], threshold)
              THEN TRUE
              ELSE LookAhead(tr, future_tick + 1, last_tick, price_by_tick,
                             threshold)
         ELSE FALSE

(* a row of the ledger file is loaded *)
PredLoad(tr) ==
    /\ pred.pc = "load"
    /\ Len(pred.ledger) < MaxPredTrades
    /\ pred' = [pred EXCEPT !.ledger = Append(@, tr)]
    /\ UNCHANGED <<simVars, detVars, runs, stratVars, logger, batch, ended>>

(* _organize_trades, then detect up to its loops *)
PredOrganize ==
    /\ pred.pc = "load"
    /\ pred' = [pred EXCEPT
                   !.pc = "detect",
                   !.price_by_tick = PriceByTick(pred.ledger),
                   !.queue = DetectOrder(pred.ledger, AgentOrder(pred.ledger))]
    /\ UNCHANGED <<simVars, detVars, runs, stratVars, logger, batch, ended>>

(* one iteration of the loop over an agent's trades *)
PredTrade ==
    /\ pred.pc = "detect"
    /\ pred.queue # <<>>
    /\ LET tr == Head(pred.queue)
           mine == pred.suspicions[tr.agent_id]
           flagged == LookAhead(tr, tr.tick + 1, tr.tick + pred.window,
                                pred.price_by_tick, pred.threshold)
       IN pred' = [pred EXCEPT
                      !.queue = Tail(@),
                      !.suspicions[tr.agent_id] =
                          IF flagged THEN Mark(mine, tr.tick, One) ELSE mine,
                      !.last = [trade |-> tr, before |-> mine]]
    /\ UNCHANGED <<simVars, detVars, runs, stratVars, logger, batch, ended>>

(* detect returns: an agent is in the result if it has any flag *)
PredReturn ==
    /\ pred.pc = "detect"
    /\ pred.queue = <<>>
    /\ pred' = [pred EXCEPT
                   !.pc = "done",
                   !.output = [a \in {b \in PredAgents :
                                         pred.suspicions[b] # EmptyMap}
                                  |-> pred.suspicions[a]]]
    /\ UNCHANGED <<simVars, detVars, runs, stratVars, logger, batch, ended>>

PredNext ==
    \/ \E tr \in PredTrades : PredLoad(tr)
    \/ PredOrganize
    \/ PredTrade
    \/ PredReturn

PredStart ==
    /\ SimIdle /\ RuleIdle /\ EngIdle /\ SeedIdle /\ StratIdle
    /\ PredInit
    /\ LoggerIdle /\ BatchIdle /\ EndedIdle

PredSpec == PredStart /\ [][PredNext]_vars

-----------------------------------------------------------------------------
(* ArbitrageDetectionEngine.detect (main.py) with the two rules of rules.py *)
(* on a trade list the caller holds, called up to twice on the same list.   *)
(* A call is one step: _organize_trades, every rule's detect in the order   *)
(* of self.rules (each sorts the per-agent lists it is handed, in place),   *)
(* and the combination of the outputs.  Prices are whole currency units.    *)

(* Bound of the model: trades in the caller's list *)
MaxLedger == 3

(* the trades the caller's list is made of: one unit each, so that a       *)
(* position of two units takes two buys                                     *)
BatchTrades == [tick : {1, 2}, agent_id : {1, 2}, action : {"buy", "sell"},
                units : {1}, price : {1, 2}]

(* the rule objects, with the time window of config.py and a predictive     *)
(* rule that looks one tick ahead for a move of 50%                         *)
RoundTripRule ==
    [name |-> "RoundTripProfitRule", time_window |-> 20,
     profit_threshold |-> Zero]
PredictiveRule ==
    [name |-> "PredictiveTradeRule", window |-> 1, threshold |-> Half]

(* an engine with the rule list of the script (main.py:185-188), and an    *)
(* empty list of trades in the caller's hands                               *)
BatchInit ==
    batch = [pc |-> "load", rules |-> <<RoundTripRule, PredictiveRule>>,
             trades |-> <<>>, results |-> <<>>]

(* _organize_trades: trades_by_agent, each agent's trades in list order *)
TradesByAgent(ts) == [a \in OrganizeAgents(ts) |-> TradesOf(ts, a)]

(* what each rule leaves of trades_by_agent: trades.sort(key=tick) on every *)
(* agent's list                                                             *)
SortedInPlace(tba) == [a \in DOMAIN tba |-> SortByTick(tba[a])]

(* if agent_suspicions: suspicions[agent] = agent_suspicions *)
NonEmpty(marks) == [a \in {b \in DOMAIN marks : marks[b] # EmptyMap} |-> marks[a]]

(* RoundTripProfitRule.detect *)
RoundTripDetect(rule, tba) ==
    NonEmpty([a \in DOMAIN tba |->
                 RoundTripLocals(SortByTick(tba[a]),
                                 [time_window |-> rule.time_window,
                                  profit_threshold |-> rule.profit_threshold])
                     .agent_suspicions])

RECURSIVE PredictiveMarks(_, _, _)
(* PredictiveTradeRule.detect: agent_suspicions after the loop over the     *)
(* sorted trades ts of one agent                                            *)
PredictiveMarks(rule, ts, price_by_tick) ==
    IF ts = <<>>
    THEN EmptyMap
    ELSE LET sofar == PredictiveMarks(rule, SubSeq(ts, 1, Len(ts) - 1),
                                      price_by_tick)
             tr == ts[Len(ts)]
         IN IF LookAhead(tr, tr.tick + 1, tr.tick + rule.window,
                         price_by_tick, rule.threshold)
            THEN Mark(sofar, tr.tick, One)
            ELSE sofar

(* PredictiveTradeRule.detect *)
PredictiveDetect(rule, tba, price_by_tick) ==
    NonEmpty([a \in DOMAIN tba |->
                 PredictiveMarks(rule, SortByTick(tba[a]), price_by_tick)])

(* rule.detect(trades_by_agent, price_by_tick) *)
RuleDetect(rule, tba, price_by_tick) ==
    IF rule.name = "RoundTripProfitRule"
    THEN RoundTripDetect(rule, tba)
    ELSE PredictiveDetect(rule, tba, price_by_tick)

(* a table that still holds what the call before left in it *)
KeptCombined(agents) ==
    [a \in agents |->
        IF batch.results = <<>> THEN EmptyMap
        ELSE MapGet(batch.results[Len(batch.results)], a, EmptyMap)]

(* combined_suspicions = {agent: {} for agent in all_agents} *)
NewCombined(agents) == [a \in agents |-> EmptyMap]

(* detect, lines 152-158: one rule's output combined into the table *)
Combine(combined, rule_output) ==
    [a \in DOMAIN combined |->
        LET new == MapGet(rule_output, a, EmptyMap)
        IN [t \in DOMAIN combined[a] \cup DOMAIN new |->
               IF t \in DOMAIN new
               THEN CombineStep(MapGet(combined[a], t, Zero), new[t])
               ELSE combined[a][t]]]

RECURSIVE ApplyRules(_, _, _, _)
(* detect, the loop over self.rules: the table and the per-agent lists as   *)
(* the last rule leaves them                                                *)
ApplyRules(rs, tba, price_by_tick, combined) ==
    IF rs = <<>>
    THEN [combined_suspicions |-> combined, trades_by_agent |-> tba]
    ELSE ApplyRules(Tail(rs), SortedInPlace(tba), price_by_tick,
                    Combine(combined, RuleDetect(Head(rs), tba, price_by_tick)))

(* ArbitrageDetectionEngine.detect(trades) for an engine with the rules rs *)
Detect(rs, ts) ==
    ApplyRules(rs, TradesByAgent(ts), PriceByTick(ts),
               NewCombined(OrganizeAgents(ts)))

(* the caller adds a trade to its list *)
BatchLoad(tr) ==
    /\ batch.pc = "load"
    /\ Len(batch.trades) < MaxLedger
    /\ batch' = [batch EXCEPT !.trades = Append(@, tr)]
    /\ UNCHANGED <<simVars, detVars, runs, stratVars, pred, logger, ended>>

(* engine.detect(trades): the result goes to the caller; the engine, its    *)
(* rules and the caller's list are written by no line of the call, and the  *)
(* locals are dropped                                                       *)
DetectCall ==
    /\ batch.pc \in {"load", "called"}
    /\ Len(batch.results) < 2
    /\ batch' = [batch EXCEPT
                    !.pc = "called",
                    !.results =
                        Append(@, Detect(batch.rules, batch.trades)
                                      .combined_suspicions)]
    /\ UNCHANGED <<simVars, detVars, runs, stratVars, pred, logger, ended>>

DetectNext ==
    \/ \E tr \in BatchTrades : BatchLoad(tr)
    \/ DetectCall

DetectStart ==
    /\ SimIdle /\ RuleIdle /\ EngIdle /\ SeedIdle /\ StratIdle
    /\ PredIdle /\ LoggerIdle /\ EndedIdle
    /\ BatchInit

DetectSpec == DetectStart /\ [][DetectNext]_vars

-----------------------------------------------------------------------------
(* TradeLogger (logger.py), called with the twelve arguments its log takes. *)
(* Of a record the model keeps tick, agent, price, the agent's cash and     *)
(* holdings before and after, portfolio_value, cumulative_pnl, sma,         *)
(* ma_window and deviation; the other fields are computed from the          *)
(* arguments and from the volatility window and are not read again.         *)

(* Bound of the model: calls of log *)
MaxLogCalls == 4

MaWindows == {1, 2, 3}
LogTicks == {1, 2}
LogAgents == {1, 2}
LogPrices == {1, 2}

(* None *)
Null == <<>>
NoPrice == -1

(* the initial_endowments a caller may hand to the constructor: none (the   *)
(* default, as AssetMarket does), or a baseline for agent 1                 *)
GivenEndowments == {EmptyMap, MapPut(EmptyMap, 1, RInt(20))}

(* the agent's cash and holdings before and after the trade a call reports: *)
(* at tick 1 the purchase of one unit, at tick 2 the sale of one unit       *)
LogFill(tk, p) ==
    IF tk = 1
    THEN [cash_before |-> 10, holdings_before |-> 0,
          cash_after |-> 10 - p, holdings_after |-> 1]
    ELSE [cash_before |-> 8, holdings_before |-> 1,
          cash_after |-> 8 + p, holdings_after |-> 0]

(* TradeLogger.__init__: self.initial_endowments = initial_endowments or {} *)
LoggerInit ==
    \E w \in MaWindows, given \in GivenEndowments :
        logger = [pc |-> "ready", ma_window |-> w, price_history |-> <<>>,
                  last_tick_logged |-> NoTick, last_price_logged |-> NoPrice,
                  initial_endowments |-> given, records |-> <<>>,
                  observed |-> 0, observed_at |-> <<>>, given |-> given]

(* deque(maxlen=ma_window).append: at full length the oldest entry goes *)
DequeAppend(h, x, maxlen) ==
    IF maxlen = 0 THEN <<>>
    ELSE IF Len(h) >= maxlen THEN Append(Tail(h), x) ELSE Append(h, x)

(* an average emitted from the first observation on *)
SmaReadyFromFirst(h, ma_window) == Len(h) >= 1

(* len(self.price_history) >= self.ma_window *)
SmaReady(h, ma_window) == Len(h) >= ma_window

(* a baseline that follows the latest trade *)
BaselineOfLatest(endowments, agent_id, value) ==
    MapPut(endowments, agent_id, value)

(* if agent_id not in self.initial_endowments:                              *)
(*     self.initial_endowments[agent_id] = value                            *)
Baseline(endowments, agent_id, value) ==
    IF agent_id \in DOMAIN endowments THEN endowments
    ELSE MapPut(endowments, agent_id, value)

(* TradeLogger.log(tick, agent_id, ..., price, ...), with the agent's cash  *)
(* and holdings before and after the trade                                  *)
Log(tk, agent_id, p, cash_before, cash_after, holdings_before, holdings_after) ==
    /\ logger.pc = "ready"
    /\ Len(logger.records) < MaxLogCalls
    /\ LET changed == \/ logger.last_tick_logged # tk
                      \/ logger.last_price_logged # p
           hist == IF changed
                   THEN DequeAppend(logger.price_history, p, logger.ma_window)
                   ELSE logger.price_history
           seen == IF changed THEN logger.observed + 1 ELSE logger.observed
           sma == IF SmaReady(hist, logger.ma_window)
                  THEN RNorm(SeqSum(hist), Len(hist))
                  ELSE Null
           deviation == IF sma # Null THEN RSub(RInt(p), sma) ELSE Null
           endowments == Baseline(logger.initial_endowments, agent_id,
                                  RInt(cash_before + holdings_before * p))
           pv_after == RInt(cash_after + holdings_after * p)
           pnl == RSub(pv_after, endowments[agent_id])
       IN logger' =
            [logger EXCEPT
                !.price_history = hist,
                !.last_tick_logged = IF changed THEN tk ELSE @,
                !.last_price_logged = IF changed THEN p ELSE @,
                !.initial_endowments = endowments,
                !.records = Append(@, [tick |-> tk, agent_id |-> agent_id,
                                       price |-> p,
                                       cash_before |-> cash_before,
                                       cash_after |-> cash_after,
                                       holdings_before |-> holdings_before,
                                       holdings_after |-> holdings_after,
                                       portfolio_value |-> pv_after,
                                       cumulative_pnl |-> pnl,
                                       sma |-> sma,
                                       ma_window |-> logger.ma_window,
                                       deviation |-> deviation]),
                !.observed = seen,
                !.observed_at = Append(@, seen)]
    /\ UNCHANGED <<simVars, detVars, runs, stratVars, pred, batch, ended>>

LoggerNext ==
    \E tk \in LogTicks, a \in LogAgents, p \in LogPrices :
        LET fill == LogFill(tk, p)
        IN Log(tk, a, p, fill.cash_before, fill.cash_after,
               fill.holdings_before, fill.holdings_after)

LoggerStart ==
    /\ SimIdle /\ RuleIdle /\ EngIdle /\ SeedIdle /\ StratIdle
    /\ PredIdle /\ BatchIdle /\ EndedIdle
    /\ LoggerInit

LoggerSpec == LoggerStart /\ [][LoggerNext]_vars

-----------------------------------------------------------------------------
(* Claims about the simulation, checked under Spec.                         *)
(* Spec steps AssetMarket.step and TraderAgent.step as the code writes      *)
(* them; the run is followed past the TypeError of the logger call (raised) *)
(* so that every state a caller of TraderAgent.step can observe is covered. *)

Filling == pc = "fill"
FillEnded == pc = "fill" /\ LoopDone(order)

(* C1: the market price is >= 0 in every reachable state: after the        *)
(* random-walk update and after every single unit filled by a buy or sell. *)
C1_PriceNonNegative == price >= 0

(* a sell has just pushed the price onto the floor *)
C1_Witness ==
    /\ Filling /\ order.action = "sell" /\ order.actual_units > 0
    /\ price = 0 /\ price_impact > 0

(* C2: every agent's cash and holdings are >= 0 in every reachable state,  *)
(* between the unit fills of an order included.                            *)
C2_CashHoldingsNonNegative ==
    \A a \in Agents : cash[a] >= 0 /\ holdings[a] >= 0

(* a buy stopped short because the remaining cash is below the price *)
C2_Witness ==
    /\ FillEnded /\ order.action = "buy"
    /\ order.actual_units > 0 /\ order.actual_units < order.units
    /\ cash[order.agent] < price

(* C3: units filled <= units requested; a sell fills at most the holdings  *)
(* before the order; a buy debits at most the cash before the order.       *)
C3_FillWithinLimits ==
    Filling =>
        /\ order.actual_units <= order.units
        /\ order.action = "sell" => order.actual_units <= order.holdings_before
        /\ order.action = "buy" => order.amount <= order.cash_before

(* a sell asked for more than was held and filled exactly the holdings *)
C3_Witness ==
    /\ FillEnded /\ order.action = "sell"
    /\ order.units > order.holdings_before
    /\ order.actual_units = order.holdings_before
    /\ order.holdings_before > 0

(* sum of the prices p, p+i, ..., p+(n-1)i *)
BuySum(p, i, n) == n * p + i * ((n * (n - 1)) \div 2)

RECURSIVE SellSum(_, _, _)
(* sum of the prices q, q-i, ..., q-(n-1)i, each floored at 0 *)
SellSum(q, i, n) ==
    IF n = 0 THEN 0 ELSE q + SellSum(Max(q - i, 0), i, n - 1)

RECURSIVE SellEnd(_, _, _)
(* max(q - n*i, 0), the floor applied after every unit *)
SellEnd(q, i, n) ==
    IF n = 0 THEN q ELSE SellEnd(Max(q - i, 0), i, n - 1)

BuyFilledAsStated(o, n) ==
    /\ o.actual_units = n
    /\ cash[o.agent] = o.cash_before - BuySum(o.start_price, price_impact, n)
    /\ holdings[o.agent] = o.holdings_before + n
    /\ price = o.start_price + n * price_impact

SellFilledAsStated(o, n) ==
    /\ o.actual_units = n
    /\ cash[o.agent] = o.cash_before + SellSum(o.start_price, price_impact, n)
    /\ holdings[o.agent] = o.holdings_before - n
    /\ price = Max(o.start_price - n * price_impact, 0)
    /\ price = SellEnd(o.start_price, price_impact, n)

SufficientCash(o) ==
    o.cash_before >= BuySum(o.start_price, price_impact, o.units)

(* C4 as stated: a buy of n units with sufficient cash fills n units at    *)
(* p, p+i, ..., whatever the starting price p; a sell of n held units      *)
(* fills n units at q, q-i, ... floored at 0.                              *)
C4_Original ==
    FillEnded =>
        /\ (order.action = "buy" /\ SufficientCash(order))
              => BuyFilledAsStated(order, order.units)
        /\ (order.action = "sell" /\ order.units <= order.holdings_before)
              => SellFilledAsStated(order, order.units)

(* C4 amended: the same, for a buy that starts at a price p > 0 (at p = 0  *)
(* the buy loop does not run and nothing is filled).                       *)
C4_FillArithmetic ==
    FillEnded =>
        /\ (order.action = "buy" /\ SufficientCash(order) /\ order.start_price > 0)
              => BuyFilledAsStated(order, order.units)
        /\ (order.action = "buy" /\ order.start_price = 0)
              => BuyFilledAsStated(order, 0)
        /\ (order.action = "sell" /\ order.units <= order.holdings_before)
              => SellFilledAsStated(order, order.units)

(* an agent that bought at least two units has sold two or more of them,   *)
(* with a positive impact moving the price at every unit                   *)
C4_Witness ==
    /\ FillEnded /\ order.action = "sell"
    /\ order.units >= 2 /\ order.actual_units = order.units
    /\ price_impact > 0 /\ price > 0
    /\ cash[order.agent] > StartCash

(* C12: an order that cannot be fully filled is partially filled and is     *)
(* never an error; an order that fills zero units changes neither cash,     *)
(* holdings nor price and produces no trade record.                         *)
C12_PartialFillNeverError ==
    [][(FinishOrder /\ order.actual_units < order.units) =>
          /\ raised' = raised
          /\ order.actual_units = 0 =>
                /\ cash[order.agent] = order.cash_before
                /\ holdings[order.agent] = order.holdings_before
                /\ price = order.start_price
                /\ UNCHANGED <<cash, holdings, price, records>>]_vars

(* no two records of the ledger have the same agent and tick *)
OnePerAgentTick ==
    \A i, j \in DOMAIN records :
        (records[i].agent_id = records[j].agent_id
            /\ records[i].tick = records[j].tick) => i = j

(* C13: every order that fills at least one unit appends exactly one record *)
(* to the global ledger, with the model's tick, the total units filled and  *)
(* the price at the start of the fill sequence; the ledger holds at most    *)
(* one record per (agent, tick).                                            *)
C13_OneRecordPerFilledOrder ==
    /\ []OnePerAgentTick
    /\ [][(FinishOrder /\ order.actual_units > 0) =>
             records' = Append(records, TradeRecord(order, tick))]_vars

(* C14: at every step whose tick satisfies (tick - 1) mod 10 = 0, before    *)
(* the price update, baseline_price is set to the price at the end of the   *)
(* previous step, bias_direction is set to +1 or -1 and the bias becomes    *)
(* active (its drift is in that step's price update, and it is still active *)
(* after it unless the price left the band); at every other step            *)
(* baseline_price is left unchanged and the bias is never (re)activated.    *)
C14_CycleStart ==
    [][IF tick' # tick /\ (tick' - 1) % 10 = 0
       THEN /\ baseline_price' = price
            /\ bias_direction' \in {1, -1}
            /\ \E shock \in Shocks :
                  price' = WalkPrice(price, shock + BiasDrift * bias_direction')
            /\ \/ bias_active'
               \/ 10 * price' >= 11 * baseline_price'
               \/ 10 * price' <= 9 * baseline_price'
       ELSE /\ baseline_price' = baseline_price
            /\ bias_direction' \in {bias_direction, 0}
            /\ bias_active' => bias_active]_vars

(* the second cycle has opened at tick 11 on a baseline other than the      *)
(* initial price, with a downward bias that is active after the update      *)
C14_Witness ==
    /\ tick = 11 /\ pc = "agents"
    /\ bias_active /\ bias_direction = -1
    /\ baseline_price = last_price
    /\ \A mp \in MarketParams : baseline_price # mp[1]

(* a step of the clock that ran the band test with the bias active *)
BandTested == tick' # tick /\ (bias_active \/ (tick' - 1) % 10 = 0)

(* once inactive the bias stays inactive until a tick opens a new cycle,    *)
(* and the price update of a step with an inactive bias carries no drift    *)
StaysInactive ==
    /\ (~bias_active /\ bias_active') => (tick' # tick /\ (tick' - 1) % 10 = 0)
    /\ (tick' # tick /\ ~bias_active /\ (tick' - 1) % 10 # 0) =>
          \E shock \in Shocks : price' = WalkPrice(price, shock)

(* C15 as stated: while the bias is active, if the price after the          *)
(* random-walk update is >= 110% or <= 90% of baseline_price, the bias is   *)
(* inactive from that same step on, before any agent is evaluated, for      *)
(* every remaining tick of the cycle.                                       *)
C15_Original ==
    [][/\ (BandTested /\ (\/ 10 * price' >= 11 * baseline_price'
                          \/ 10 * price' <= 9 * baseline_price'))
             => ~bias_active'
       /\ StaysInactive]_vars

(* C15 amended: the bias is inactive from that same step on when the price  *)
(* after the update is above 110% or at or below 90% of baseline_price, and *)
(* only when it is at or beyond the band; exactly at 110% the floating      *)
(* point test may leave the bias active.                                    *)
C15_EarlyExit ==
    [][/\ (BandTested /\ (\/ 10 * price' > 11 * baseline_price'
                          \/ 10 * price' <= 9 * baseline_price'))
             => ~bias_active'
       /\ (BandTested /\ ~bias_active') =>
             (\/ 10 * price' >= 11 * baseline_price'
              \/ 10 * price' <= 9 * baseline_price')
       /\ StaysInactive]_vars

(* the bias left early in this cycle (its direction is still set), two or   *)
(* more ticks ago, and is still inactive although the price is back inside  *)
(* the band                                                                 *)
C15_Witness ==
    /\ pc = "agents" /\ tick >= 3 /\ tick < 10
    /\ ~bias_active /\ bias_direction # 0
    /\ 10 * price < 11 * baseline_price
    /\ 10 * price > 9 * baseline_price
    /\ 10 * last_price >= 11 * baseline_price

(* C16: after every step whose tick is a multiple of 10 the clock is in     *)
(* NoBias (bias_active = false and bias_direction = 0), whatever the price  *)
(* did during the cycle.                                                    *)
C16_NoBiasAtCycleEnd ==
    (pc = "clock" /\ tick % 10 = 0) =>
        (~bias_active /\ bias_direction = 0)

(* step 10 has returned in a run whose price, 20 half units a cycle at the  *)
(* most, could not leave the band of the baseline 900: the bias was active  *)
(* until the end of the cycle, and the price has moved                      *)
C16_Witness ==
    /\ pc = "clock" /\ tick = 10
    /\ baseline_price = 900 /\ price # baseline_price
    /\ ~bias_active /\ bias_direction = 0

(* C23 as stated: a buy fill sequence ends only because the requested      *)
(* units are all filled or because the agent's cash is less than the       *)
(* current price of the next unit.                                          *)
C23_Original ==
    (FillEnded /\ order.action = "buy") =>
        \/ order.actual_units = order.units
        \/ cash[order.agent] < price

(* C23 amended: a buy fill sequence ends only because the requested units  *)
(* are all filled, because the agent's cash is less than the current price *)
(* of the next unit, or because the price is 0; the last happens only to a *)
(* buy that starts at price 0, which fills nothing.  A buy at a positive   *)
(* price with sufficient cash is never cut short.                          *)
C23_BuyEndsFilledOrUnaffordable ==
    (FillEnded /\ order.action = "buy") =>
        /\ \/ order.actual_units = order.units
           \/ cash[order.agent] < price
           \/ price = 0 /\ order.start_price = 0 /\ order.actual_units = 0
        /\ (SufficientCash(order) /\ order.start_price > 0)
              => order.actual_units = order.units

(* a buy of several units has filled them all and the agent could still    *)
(* afford the next unit                                                     *)
C23_Witness ==
    /\ FillEnded /\ order.action = "buy"
    /\ order.units >= 2 /\ order.actual_units = order.units
    /\ price > 0 /\ cash[order.agent] >= price

(* the agents of the current tick are being stepped: the points where an   *)
(* agent observes the market                                               *)
AgentsObserve == pc \in {"agents", "fill"}

(* C29 as stated: at every point where agents observe the market the clock *)
(* is in NoBias (inactive, direction 0), BiasUp (active, +1) or BiasDown   *)
(* (active, -1): bias_active holds if and only if bias_direction is not 0. *)
C29_Original ==
    AgentsObserve => (bias_active <=> bias_direction # 0)

(* C29 amended: bias_direction is +1, -1 or 0, and an active bias has a    *)
(* direction of +1 or -1; the direction is 0 exactly between the step that *)
(* closes a cycle (or the construction) and the next step, so wherever     *)
(* agents observe the market it is the +1 or -1 drawn when the cycle       *)
(* opened, also after the price threshold has switched bias_active off.    *)
C29_ClockStates ==
    /\ bias_direction \in {-1, 0, 1}
    /\ bias_active => bias_direction # 0
    /\ bias_direction = 0 <=> (pc = "clock" /\ tick % CycleLength = 0)
    /\ AgentsObserve => bias_direction # 0

(* agents observe a bias that the price threshold has switched off in the  *)
(* middle of its cycle: inactive, its direction still set                  *)
C29_Witness ==
    /\ pc = "agents" /\ todo = Agents
    /\ ~bias_active /\ bias_direction # 0
    /\ ~NewCycle(tick) /\ ~CycleEnd(tick)

-----------------------------------------------------------------------------
(* Claims about RoundTripProfitRule.detect, checked under RuleSpec *)

Flag(tk) == MapGet(rt.agent_suspicions, tk, Zero)

(* the last two trades were: a buy of u units by the agent while flat, then *)
(* a sell of exactly u units at a later tick and a higher price, within the *)
(* time window, under profit_threshold = 0                                  *)
QuickRoundTrip ==
    /\ rt_seen.n >= 2
    /\ rt_seen.prev_kind = "open" /\ rt_seen.kind = "close"
    /\ rt_seen.trade.units = rt_seen.prev_trade.units
    /\ rt_seen.trade.tick > rt_seen.prev_trade.tick
    /\ rt_seen.trade.price > rt_seen.prev_trade.price
    /\ rt_params.profit_threshold = Zero
    /\ rt_seen.trade.tick - rt_seen.prev_trade.tick <= rt_params.time_window

(* C5 as stated: after such a round trip the rule's output for the agent   *)
(* is 1.0 at the sell tick t2 and 0.5 at the buy tick t1.                  *)
C5_Original ==
    QuickRoundTrip =>
        /\ Flag(rt_seen.trade.tick) = One
        /\ Flag(rt_seen.prev_trade.tick) = Half

(* C5 amended: the output is 1.0 at t2, and at t1 it is 0.5 unless t1 was  *)
(* already flagged by an earlier round trip of the agent (t1 is also the   *)
(* closing tick of a flagged round trip), whose higher value 1.0 is kept.  *)
C5_RoundTripFlags ==
    QuickRoundTrip =>
        /\ rt_seen.flagged
        /\ Flag(rt_seen.trade.tick) = One
        /\ Flag(rt_seen.prev_trade.tick)
             = RMax(Half, MapGet(rt_seen.before, rt_seen.prev_trade.tick, Zero))

(* a quick round trip whose buy tick carried no earlier flag: 0.5 at t1 *)
C5_Witness ==
    /\ QuickRoundTrip
    /\ rt_seen.prev_trade.tick \notin DOMAIN rt_seen.before
    /\ Flag(rt_seen.prev_trade.tick) = Half
    /\ Flag(rt_seen.trade.tick) = One

(* proceeds of the sells minus cost of the buys of the round trip just closed *)
RoundTripProfit == rt_seen.sold - rt_seen.bought

-----------------------------------------------------------------------------
(* Claims about ArbitrageDetectionEngine, checked under EngineSpec *)

LedgerTicks == {trades[i].tick : i \in DOMAIN trades}
Detected == eng_pc \in {"detect", "saved"}

(* C7: the detection output has exactly one row for every integer tick in  *)
(* [min_tick, max_tick] of the ledger, in order and without gaps; a tick   *)
(* of that range with no trade has a row with 0.0 for every agent.         *)
C7_GaplessRows ==
    (eng_pc = "saved" /\ trades # <<>>) =>
        LET lo == SetMin(LedgerTicks)
            hi == SetMax(LedgerTicks)
        IN /\ Len(csv_rows) = hi - lo + 1
           /\ \A i \in DOMAIN csv_rows :
                 /\ csv_rows[i].tick = lo + i - 1
                 /\ csv_rows[i].tick \notin LedgerTicks =>
                       \A a \in all_agents : csv_rows[i].cells[a] = 0

RECURSIVE ProductOfComplements(_)
(* the product of (1 - p) over the outputs ps *)
ProductOfComplements(ps) ==
    IF ps = <<>> THEN One
    ELSE RMul(RSub(One, ps[Len(ps)]),
              ProductOfComplements(SubSeq(ps, 1, Len(ps) - 1)))

(* 1 - product of (1 - p_i) over the outputs the rules produced for a cell *)
ProbabilisticOr(ps) == RSub(One, ProductOfComplements(ps))

(* C8: detect returns, for every (agent, tick) cell, 1 - the product over  *)
(* the rules that produced an output p_i for the cell of (1 - p_i); a cell *)
(* no rule produced an output for is absent and reads 0.0 in the output.   *)
C8_CombinedIsProbabilisticOr ==
    Detected =>
        /\ \A a \in all_agents, tk \in EngTicks :
              IF <<a, tk>> \in DOMAIN outs
              THEN /\ tk \in DOMAIN combined_suspicions[a]
                   /\ combined_suspicions[a][tk] = ProbabilisticOr(outs[<<a, tk>>])
              ELSE tk \notin DOMAIN combined_suspicions[a]
        /\ eng_pc = "saved" =>
              \A i \in DOMAIN csv_rows, a \in all_agents :
                 csv_rows[i].cells[a] =
                    IF <<a, csv_rows[i].tick>> \in DOMAIN outs
                    THEN FormatProb(ProbabilisticOr(outs[<<a, csv_rows[i].tick>>]))
                    ELSE 0

(* the output holds a cell two rules flagged at 0.5 each, written 0.750,   *)
(* and a cell no rule produced an output for, written 0.000                *)
C8_Witness ==
    /\ eng_pc = "saved"
    /\ \E i \in DOMAIN csv_rows, a \in all_agents :
          /\ <<a, csv_rows[i].tick>> \in DOMAIN outs
          /\ outs[<<a, csv_rows[i].tick>>] = <<Half, Half>>
          /\ csv_rows[i].cells[a] = 750
    /\ \E i \in DOMAIN csv_rows, a \in all_agents :
          /\ <<a, csv_rows[i].tick>> \notin DOMAIN outs
          /\ csv_rows[i].cells[a] = 0

RECURSIVE FoldCombine(_)
(* the combination loop of detect run over the outputs ps of one cell *)
FoldCombine(ps) ==
    IF ps = <<>> THEN Zero
    ELSE CombineStep(FoldCombine(SubSeq(ps, 1, Len(ps) - 1)), ps[Len(ps)])

(* C9: for rule outputs in [0,1] the combined probability of every cell is *)
(* within [0,1], and raising one rule's output for the cell, the others    *)
(* fixed, never lowers the combined value.                                 *)
C9_BoundedAndMonotone ==
    Detected =>
        \A c \in DOMAIN outs :
            LET ps == outs[c]
                now == combined_suspicions[c[1]][c[2]]
            IN /\ RLe(Zero, now) /\ RLe(now, One)
               /\ \A i \in DOMAIN ps, q \in ProbGrid :
                     RLe(ps[i], q) =>
                        RLe(now, FoldCombine([ps EXCEPT ![i] = q]))

(* a cell with two outputs whose combined value, 0.75, lies strictly       *)
(* between the value with one output lowered and with one output raised    *)
C9_Witness ==
    /\ Detected
    /\ \E c \in DOMAIN outs :
          /\ outs[c] = <<Half, Half>>
          /\ combined_suspicions[c[1]][c[2]] = <<3, 4>>
          /\ RLt(combined_suspicions[c[1]][c[2]],
                 FoldCombine([outs[c] EXCEPT ![1] = One]))

(* the ValueError of the constructor, which names a rule *)
ConfigError == error.kind = "ValueError" /\ "rule" \in DOMAIN error

Offending == {i \in DOMAIN rules : ~(rules[i].fields \subseteq allowed_fields)}

(* C10: constructing the engine raises a configuration error, naming a     *)
(* rule whose fields are not all allowed, if and only if some rule's       *)
(* declared fields are not a subset of allowed_fields; an engine that was  *)
(* constructed raises no field-permission error in detect.                 *)
C10_FailFastAtConstruction ==
    eng_pc # "new" =>
        /\ ConfigError <=> (Offending # {})
        /\ ConfigError =>
              /\ eng_pc = "error"
              /\ \E i \in Offending : rules[i].name = error.rule
        /\ eng_pc \in {"load", "detect", "saved"} => error = NoError
        /\ (eng_pc = "error" /\ ~ConfigError) => "field" \in DOMAIN error

(* construction failed on the second rule of the list, the first being fine *)
C10_Witness ==
    /\ eng_pc = "error"
    /\ Len(rules) = 2
    /\ rules[1].fields \subseteq allowed_fields
    /\ error = [kind |-> "ValueError", rule |-> rules[2].name]

(* the row a lenient loader would append for a row with an unparseable price *)
WithZeroPrice(row) ==
    [tick |-> DigitsValue(row.tick), agent_id |-> DigitsValue(row.agent_id),
     price |-> Zero]

(* C11: ledger ingestion never aborts on an unparseable numeric field: the *)
(* field is replaced by 0.0 and loading continues with the remaining rows. *)
C11_LenientIngestion ==
    [][\A row \in Rows :
          (LoadRow(row) /\ ParsesAsInt(row.tick) /\ ~ParsesAsFloat(row.price)) =>
             /\ eng_pc' = "load"
             /\ trades' = Append(trades, WithZeroPrice(row))]_vars

-----------------------------------------------------------------------------
(* Claims about the random sources, checked under SeedSpec *)

(* C17: a run is determined by one seed: the price increment, the bias      *)
(* direction and the shuffle of the agents draw from one seeded source, so  *)
(* two runs with the same seed and parameters have, tick for tick, the same *)
(* price path and the same order of agent evaluation (hence the same        *)
(* ledger).                                                                 *)
C17_OneSeedOneRun ==
    (runs[1].seed # NoSeed /\ runs[1].seed = runs[2].seed
        /\ runs[1].tick = runs[2].tick) =>
        /\ runs[1].path = runs[2].path
        /\ runs[1].orders = runs[2].orders

-----------------------------------------------------------------------------
(* A further claim about RoundTripProfitRule.detect, checked under RuleSpec. *)

(* the loop takes a sell of at least the remaining units of an open position *)
SellsOutPosition ==
    /\ rt_seen'.n = rt_seen.n + 1
    /\ rt_seen'.trade.action = "sell"
    /\ rt.position > 0
    /\ rt_seen'.trade.units >= rt.position

(* C20: a sell by an agent with an open position, of at least the units     *)
(* that remain, is a full close: the state goes back to Flat (position 0,   *)
(* no entry tick, no cost basis), also when more units are sold than        *)
(* remain, and the close is flagged exactly if it passes the profit and     *)
(* time-window test (stated here for a sell of exactly the remaining        *)
(* units).                                                                  *)
C20_SellOutIsFullClose ==
    [][SellsOutPosition =>
          /\ rt'.position = 0
          /\ rt'.entry_tick = NoTick
          /\ rt'.entry_units = 0
          /\ rt'.entry_cost = Zero
          /\ rt_seen'.trade.units = rt.position =>
                rt'.agent_suspicions =
                    IF CloseFlagged(rt, rt_seen'.trade, rt_params)
                    THEN FlagRoundTrip(rt.agent_suspicions,
                                       rt_seen'.trade.tick, rt.entry_tick)
                    ELSE rt.agent_suspicions]_vars

(* the loop takes a sell of fewer units than the open position holds *)
SellsPartOfPosition ==
    /\ rt_seen'.n = rt_seen.n + 1
    /\ rt_seen'.trade.action = "sell"
    /\ rt.position > 0
    /\ rt_seen'.trade.units < rt.position

(* C25: a sell of fewer units than the open position is a partial close:   *)
(* the position shrinks by exactly the units sold and stays open, the      *)
(* entry tick is unchanged, the weighted-average cost of a remaining unit  *)
(* is unchanged, and the sell flags no tick.                               *)
C25_PartialClose ==
    [][SellsPartOfPosition =>
          /\ rt'.position = rt.position - rt_seen'.trade.units
          /\ rt'.position > 0
          /\ rt'.entry_units = rt'.position
          /\ rt'.entry_tick = rt.entry_tick
          /\ AvgCost(rt') = AvgCost(rt)
          /\ rt'.agent_suspicions = rt.agent_suspicions]_vars

(* a position bought at two different prices has been partly sold, at a    *)
(* price that is not its average cost                                      *)
C25_Witness ==
    /\ rt_seen.kind = "partial" /\ rt_seen.prev_kind = "add"
    /\ rt_seen.prev_trade.price # rt_seen.trade.price
    /\ rt.position > 0
    /\ AvgCost(rt)[2] # 1

(* C26: the holding duration is measured from the tick of the buy that     *)
(* opened the position while flat: as long as the position is open the     *)
(* entry tick is that tick, whatever buys were added since; and a full     *)
(* close at tick c of a position opened at tick e is flagged only if       *)
(* c - e <= time_window.                                                   *)
C26_DurationFromOpeningBuy ==
    /\ rt.position > 0 => rt.entry_tick = rt_seen.open_tick
    /\ rt_seen.flagged =>
          rt_seen.trade.tick - rt_seen.open_tick <= rt_params.time_window

(* a position opened at one tick, added to at a later tick, is closed and  *)
(* flagged: the duration counted from the added buy would be 0, from the   *)
(* opening buy it is not                                                   *)
C26_Witness ==
    /\ rt_seen.kind = "close" /\ rt_seen.flagged
    /\ rt_seen.prev_kind = "add"
    /\ rt_seen.prev_trade.tick > rt_seen.open_tick
    /\ rt_seen.trade.tick = rt_seen.prev_trade.tick

(* C27: a full close is flagged only when the profit of the whole round    *)
(* trip (proceeds of all its sells minus cost of all its buys) exceeds     *)
(* profit_threshold times the cost basis of the whole round trip (cost of  *)
(* all units bought since the position was opened, those sold in partial   *)
(* closes included).                                                       *)
C27_FlagAgainstWholeCostBasis ==
    rt_seen.flagged =>
        RLt(RMul(rt_params.profit_threshold, RInt(rt_seen.bought)),
            RInt(rt_seen.sold - rt_seen.bought))

-----------------------------------------------------------------------------
(* Claims about the strategies, checked under StratSpec.                    *)

(* a call of decide_action has been made *)
Decided == decision # NoDecision

(* C18: every call of decide_action, in every reachable state of the market *)
(* and of the agent, comes back, and what it returns is None or a pair      *)
(* (action, units) with action buy or sell and units an integer of at       *)
(* least 1.                                                                 *)
C18_DecisionShape ==
    Decided =>
        /\ ~decision.raised
        /\ \/ decision.intent = NoIntent
           \/ /\ decision.intent.action \in {"buy", "sell"}
              /\ decision.intent.units \in Nat
              /\ decision.intent.units >= 1

(* the Arbitrage agent is called, it saw the bias active at its last call,  *)
(* and the bias has ended since: the price threshold has switched it off,   *)
(* or the tick of the last call closed the cycle                            *)
ObservedBiasEnded ==
    /\ decision.agent = ArbitrageAgent
    /\ decision.before.last_bias_active
    /\ ~decision.bias_active \/ CycleEnd(decision.tick - 1)

(* C19: when a bias the Arbitrage agent saw active has ended, by the price  *)
(* threshold or by the end of the 10-tick cycle, the decision the agent     *)
(* returns at its next call is to sell all its holdings, if it has any,     *)
(* after an upward bias, and to buy after a downward bias.                  *)
C19_ReversesAtOffset ==
    (ObservedBiasEnded /\ ~decision.raised) =>
        /\ (decision.before.last_bias_direction = 1 /\ decision.holdings > 0)
              => decision.intent =
                     [action |-> "sell", units |-> decision.holdings]
        /\ decision.before.last_bias_direction = -1
              => decision.intent.action = "buy"

(* the action opposite to a *)
Opposite(a) == IF a = "buy" THEN "sell" ELSE "buy"

(* C24: for the same threshold and sensitivity and the same market state,  *)
(* MeanReversionStrategy returns None exactly when TrendFollowingStrategy  *)
(* returns None, and otherwise the same units with the opposite action.    *)
C24_MeanReversionMirrorsTrend ==
    \A th \in Thresholds, se \in Sensitivities :
        LET trend == TrendDecide(TrendFollowingStrategy(th, se))
            mean == MeanReversionDecide(MeanReversionStrategy(th, se))
        IN /\ ~trend.raised /\ ~mean.raised
           /\ trend.intent = NoIntent <=> mean.intent = NoIntent
           /\ trend.intent # NoIntent =>
                 /\ mean.intent.units = trend.intent.units
                 /\ mean.intent.action = Opposite(trend.intent.action)

(* a MeanReversion agent has just decided to buy two or more units after a *)
(* fall of the price, where a Trend agent of the same parameters sells     *)
C24_Witness ==
    /\ Decided /\ decision.agent = TrendAgent
    /\ decision.before.name = "MeanReversionStrategy"
    /\ decision.intent.action = "buy" /\ decision.intent.units >= 2
    /\ price = decision.price /\ price < last_price
    /\ TrendDecide(TrendFollowingStrategy(decision.before.threshold,
                                          decision.before.sensitivity)).intent
          = [action |-> "sell", units |-> decision.intent.units]

-----------------------------------------------------------------------------
(* Claims about the strategies that read the price history, checked under  *)
(* HistSpec.                                                                *)

(* the price recorded at the end of tick k in the history h; the initial   *)
(* price stands for tick 0                                                  *)
EndOfTick(h, k) == h[k + 1]

(* the prices recorded at the ends of the ticks completed so far, oldest   *)
(* first: the history without the initial price                             *)
EndOfTickPrices(h) == Tail(h)

(* the last call of decide_action was made on the strategy class name and  *)
(* returned                                                                 *)
DecidedBy(name) ==
    Decided /\ ~decision.raised /\ decision.before.name = name

(* C21: at tick t MomentumStrategy.decide_action computes its signal as    *)
(* the current price minus the price recorded at the end of tick           *)
(* t - lookback, and returns None whenever fewer than lookback ticks of    *)
(* history exist.                                                           *)
C21_MomentumSignal ==
    DecidedBy("MomentumStrategy") =>
        LET st == decision.before
            h == decision.price_history
            t == decision.tick
        IN IF Len(EndOfTickPrices(h)) < st.lookback
           THEN decision.intent = NoIntent
           ELSE decision.intent =
                    MomentumOn(st, EndOfTick(h, t - st.lookback),
                               decision.price).intent

(* the most recent n of the prices ps, all of them if there are fewer      *)
MostRecent(ps, n) ==
    IF Len(ps) <= n THEN ps ELSE SubSeq(ps, Len(ps) - n + 1, Len(ps))

(* C22: BreakoutStrategy and ValueInvestingStrategy compute their high and *)
(* low, resp. their fair value, over the most recent window recorded       *)
(* end-of-tick prices, or over all of them when fewer than window exist    *)
(* (no trade before the first tick has ended); the price of the current    *)
(* tick, not yet recorded, is not among them.                               *)
C22_TrailingWindow ==
    /\ DecidedBy("BreakoutStrategy") =>
          decision.intent =
              BreakoutOn(decision.before,
                         MostRecent(EndOfTickPrices(decision.price_history),
                                    decision.before.window),
                         decision.price).intent
    /\ DecidedBy("ValueInvestingStrategy") =>
          decision.intent =
              ValueOn(decision.before,
                      MostRecent(EndOfTickPrices(decision.price_history),
                                 decision.before.window),
                      decision.price).intent
    /\ (Decided /\ decision.agent = WindowAgent) =>
          Len(decision.price_history) = decision.tick

(* a window strategy with a window of 2 trades at tick 4, when three       *)
(* end-of-tick prices are recorded and the oldest of them would have       *)
(* changed the outcome                                                      *)
C22_Witness ==
    /\ Decided /\ ~decision.raised /\ decision.agent = WindowAgent
    /\ decision.before.window = 2 /\ decision.tick = 4
    /\ decision.intent # NoIntent
    /\ LET all == EndOfTickPrices(decision.price_history)
       IN IF decision.before.name = "BreakoutStrategy"
          THEN BreakoutOn(decision.before, all, decision.price).intent
                   # decision.intent
          ELSE ValueOn(decision.before, all, decision.price).intent
                   # decision.intent

-----------------------------------------------------------------------------
(* A claim about PredictiveTradeRule.detect, checked under PredSpec.       *)

(* the loop has taken a trade *)
PredTaken == pred.pc \in {"detect", "done"} /\ pred.last.trade # NoPredTrade

(* at some tick among the next window ticks after the trade tr for which a *)
(* price is known, the price has moved in the trade's favour by the        *)
(* threshold fraction or more                                               *)
PriceMovesFavorably(tr) ==
    \E t \in (tr.tick + 1) .. (tr.tick + pred.window) :
        /\ t \in DOMAIN pred.price_by_tick
        /\ Favorable(tr, pred.price_by_tick[t], pred.threshold)

-----------------------------------------------------------------------------
(* A claim about TradeLogger.log, checked under LoggerSpec.                *)

(* C30: TradeLogger.log emits a moving average and a deviation only once   *)
(* ma_window price observations exist: every record logged before that has *)
(* sma and deviation null; and the logger's price history never holds more *)
(* than ma_window observations.                                             *)
C30_MovingAverageOnceFull ==
    logger.pc = "ready" =>
        /\ \A i \in DOMAIN logger.records :
              /\ logger.observed_at[i] < logger.ma_window =>
                    /\ logger.records[i].sma = Null
                    /\ logger.records[i].deviation = Null
              /\ logger.records[i].sma = Null <=>
                    logger.records[i].deviation = Null
        /\ Len(logger.price_history) <= logger.ma_window

(* with a window of 2: a first record, a second of the same tick and price *)
(* (no new observation), both without average, then a third that has one,  *)
(* and a fourth observation that pushes the first out of the history       *)
C30_Witness ==
    /\ logger.pc = "ready" /\ logger.ma_window = 2
    /\ Len(logger.records) = 4 /\ logger.observed = 3
    /\ logger.records[1].sma = Null /\ logger.records[2].sma = Null
    /\ logger.records[3].sma # Null /\ logger.records[4].sma # Null
    /\ Len(logger.price_history) = 2

-----------------------------------------------------------------------------
(* Claims about the ledger of TradeLogger, checked under LoggerSpec.       *)

(* the records logged for an agent so far, by index *)
RecordsOf(a) == {i \in DOMAIN logger.records : logger.records[i].agent_id = a}

(* mark-to-market value before the agent's first logged trade *)
FirstTradeValue(a) ==
    LET first == logger.records[SetMin(RecordsOf(a))]
    IN RInt(first.cash_before + first.holdings_before * first.price)

(* every record's cumulative_pnl is its value after the trade minus b(agent) *)
PnlAgainst(b(_)) ==
    \A i \in DOMAIN logger.records :
        LET r == logger.records[i]
        IN r.cumulative_pnl
             = RSub(RInt(r.cash_after + r.holdings_after * r.price),
                    b(r.agent_id))

(* no baseline the logger holds is changed or dropped by a step *)
BaselinesKept ==
    \A a \in DOMAIN logger.initial_endowments :
        /\ a \in DOMAIN logger'.initial_endowments
        /\ logger'.initial_endowments[a] = logger.initial_endowments[a]

(* C31 as stated: the baseline of every agent with a logged trade is        *)
(* cash_before + holdings_before x price of that agent's first logged       *)
(* trade, it never changes, and every record's cumulative_pnl is            *)
(* cash_after + holdings_after x price minus that baseline.                 *)
C31_Original ==
    logger.pc = "ready" =>
        /\ \A a \in LogAgents : RecordsOf(a) # {} =>
              /\ a \in DOMAIN logger.initial_endowments
              /\ logger.initial_endowments[a] = FirstTradeValue(a)
        /\ PnlAgainst(FirstTradeValue)

(* the baseline in force for an agent: the one given to the constructor,    *)
(* else the value before the agent's first logged trade                     *)
BaselineInForce(a) ==
    IF a \in DOMAIN logger.given THEN logger.given[a] ELSE FirstTradeValue(a)

(* C31: for an agent without an entry in the initial_endowments given to    *)
(* the constructor, TradeLogger captures the P&L baseline at the agent's    *)
(* first logged trade (cash_before + holdings_before x price); for an agent *)
(* with an entry the baseline is that entry; no baseline is ever changed,   *)
(* and every record's cumulative_pnl equals cash_after + holdings_after x   *)
(* price minus the agent's baseline.                                        *)
C31_BaselineFixedAtFirstTrade ==
    /\ [](logger.pc = "ready" =>
            /\ \A a \in LogAgents : RecordsOf(a) # {} =>
                  /\ a \in DOMAIN logger.initial_endowments
                  /\ logger.initial_endowments[a] = BaselineInForce(a)
            /\ \A a \in DOMAIN logger.initial_endowments :
                  a \in DOMAIN logger.given \/ RecordsOf(a) # {}
            /\ PnlAgainst(BaselineInForce))
    /\ [][logger.pc = "ready" => BaselinesKept]_vars

(* an agent without a given baseline has sold at tick 2 and then bought at  *)
(* tick 1 at another price: the baseline is the value before the sale, and  *)
(* the second record's cumulative_pnl is measured against it                *)
C31_Witness ==
    /\ logger.pc = "ready" /\ logger.given = EmptyMap
    /\ Len(logger.records) >= 2
    /\ logger.records[1].agent_id = 2 /\ logger.records[2].agent_id = 2
    /\ logger.records[1].tick = 2 /\ logger.records[2].tick = 1
    /\ logger.records[1].price # logger.records[2].price
    /\ logger.records[2].cumulative_pnl # Zero
    /\ logger.initial_endowments[2] = FirstTradeValue(2)

(* the ticks of the ledger never decrease from one record to the next *)
TicksInOrder(recs) ==
    \A i, j \in DOMAIN recs : i < j => recs[i].tick <= recs[j].tick

(* recs_after is recs_before with exactly one record added at the end *)
AppendsOne(recs_before, recs_after) ==
    /\ Len(recs_after) = Len(recs_before) + 1
    /\ SubSeq(recs_after, 1, Len(recs_before)) = recs_before

(* the append-only half of C32 for log called with its twelve arguments    *)
(* (LoggerSpec): each call adds one record at the end and keeps the others *)
DirectCallAppendsOne ==
    [][logger.pc = "ready" => AppendsOne(logger.records, logger'.records)]_vars

(* C32: the ledger is append-only: each TradeLogger.log call appends        *)
(* exactly one record at the end and leaves every earlier record unchanged, *)
(* and the ticks of the records are non-decreasing in append order over any *)
(* simulation run.  Checked under Spec, where the call is the one           *)
(* TraderAgent.step makes for an order that filled at least one unit.       *)
C32_AppendOnlyLedger ==
    /\ [][(FinishOrder /\ order.actual_units > 0) =>
             AppendsOne(records, records')]_vars
    /\ []TicksInOrder(records)

-----------------------------------------------------------------------------
(* A claim about ArbitrageStrategy.decide_action, checked under StratSpec. *)

(* the call recorded in decision reached a line that computes              *)
(* agent.cash // price: at the onset of an upward bias (line 188), or at    *)
(* the end of a downward bias the agent saw active (line 212)               *)
ComputesAffordable ==
    /\ Decided
    /\ decision.agent = ArbitrageAgent
    /\ \/ /\ NewCycle(decision.tick)
          /\ decision.bias_active
          /\ decision.bias_direction = 1
       \/ /\ decision.before.last_bias_active
          /\ ~decision.bias_active
          /\ decision.before.last_bias_direction = -1

(* C34: ArbitrageStrategy.decide_action is defined in every reachable       *)
(* market state: whenever it computes the affordable units as cash // price *)
(* the price is > 0, at the onset of a bias and at its end.                 *)
C34_PricePositiveWhenDividing ==
    ComputesAffordable => decision.price > 0 /\ ~decision.raised

-----------------------------------------------------------------------------
(* A claim that ties the ledger of the simulation to RoundTripProfitRule,  *)
(* checked under Spec.                                                      *)

(* position after the rule has processed the agent's records of the first  *)
(* n records of the ledger                                                  *)
TrackedPosition(ledger, n, a) ==
    RoundTripLocals(SortByTick(TradesOf(SubSeq(ledger, 1, n), a)),
                    [time_window |-> 20, profit_threshold |-> Zero]).position

(* C35: for the ledger the simulation produces (agents start with no        *)
(* holdings), once an order has ended the position RoundTripProfitRule      *)
(* tracks over the agent's records equals the agent's holdings; and every   *)
(* sell in the ledger finds a tracked position of at least its units, so    *)
(* none exceeds the position and none arrives while the agent is Flat.      *)
C35_PositionTracksHoldings ==
    pc # "fill" =>
        /\ \A a \in Agents :
              TrackedPosition(records, Len(records), a) = holdings[a]
        /\ \A n \in DOMAIN records :
              records[n].action = "sell" =>
                  records[n].units
                      <= TrackedPosition(records, n - 1, records[n].agent_id)

-----------------------------------------------------------------------------
(* A claim about the fill loops of TraderAgent.step, checked under         *)
(* FillSpec.                                                                *)

(* the order in progress is a sell by the agent whose buy of the same n     *)
(* units ended last, fully filled, and nothing happened in between: the     *)
(* sell starts from the price, cash and holdings the buy left               *)
SellsBackAfterBuy(n) ==
    /\ pc = "fill" /\ order.action = "sell" /\ order.units = n
    /\ ended # NoOrder
    /\ ended.agent = order.agent /\ ended.action = "buy"
    /\ ended.units = n /\ ended.actual_units = n
    /\ order.start_price = ended.end_price
    /\ order.cash_before = ended.cash_after
    /\ order.holdings_before = ended.holdings_after

(* C36: with no other activity in between, a buy of n units that is fully  *)
(* filled followed immediately by a sell of the same n units returns the   *)
(* price to its value before the buy and leaves the agent with holdings    *)
(* unchanged and cash increased by exactly n x price_impact.               *)
C36_BuyThenSellBack ==
    \A n \in 1 .. MaxUnits :
        (SellsBackAfterBuy(n) /\ LoopDone(order)) =>
            /\ order.actual_units = n
            /\ price = ended.start_price
            /\ holdings[order.agent] = ended.holdings_before
            /\ cash[order.agent] = ended.cash_before + n * price_impact

(* an agent bought two or more units at a positive impact and has just     *)
(* sold them back                                                          *)
C36_Witness ==
    /\ \E n \in 2 .. MaxUnits : SellsBackAfterBuy(n) /\ LoopDone(order)
    /\ price_impact > 0
    /\ cash[order.agent] > ended.cash_before

-----------------------------------------------------------------------------
(* Claims about ArbitrageDetectionEngine.detect with its rules, checked    *)
(* under DetectSpec.                                                        *)

Called == batch.pc = "called"

(* the caller's list is not in tick order, so that every rule's sort moves  *)
(* trades in the per-agent lists                                            *)
OutOfTickOrder(ts) ==
    \E i, j \in DOMAIN ts :
        i < j /\ ts[i].agent_id = ts[j].agent_id /\ ts[i].tick > ts[j].tick

RECURSIVE Reversed(_)
(* the list rs in the opposite order *)
Reversed(rs) ==
    IF rs = <<>> THEN <<>> ELSE Append(Reversed(Tail(rs)), Head(rs))

(* the action other than act *)
Flipped(act) == IF act = "buy" THEN "sell" ELSE "buy"

RECURSIVE UnitsVaried(_, _)
(* the ledgers that differ from ts at most in the units of the trades of    *)
(* agents other than a                                                      *)
UnitsVaried(ts, a) ==
    IF ts = <<>>
    THEN {<<>>}
    ELSE LET tr == ts[Len(ts)]
             front == UnitsVaried(SubSeq(ts, 1, Len(ts) - 1), a)
         IN IF tr.agent_id = a
            THEN {Append(f, tr) : f \in front}
            ELSE {Append(f, [tr EXCEPT !.units = u]) :
                     f \in front, u \in {1, 2}}

(* the ledgers that differ from ts in the action of one trade of an agent   *)
(* other than a                                                             *)
ActionVaried(ts, a) ==
    {[ts EXCEPT ![i].action = Flipped(@)] :
        i \in {j \in DOMAIN ts : ts[j].agent_id # a}}

(* what the rule returns for agent a on the ledger ts *)
OutputFor(rule, ts, a) ==
    MapGet(RuleDetect(rule, TradesByAgent(ts), PriceByTick(ts)), a, EmptyMap)

(* C37: the combined result of detect does not depend on the order of the  *)
(* rules in the engine's list, and no rule's output for an agent depends on *)
(* the units or actions of any other agent's trades: it is the same on      *)
(* every ledger that differs in the units of other agents' trades, and on   *)
(* every ledger that differs in the action of one of them (ledgers that     *)
(* differ in several actions are reached one action at a time).             *)
C37_OrderAndAgentIndependence ==
    (Called /\ Len(batch.results) = 1) =>
        /\ batch.results[1]
              = Detect(Reversed(batch.rules), batch.trades).combined_suspicions
        /\ \A i \in DOMAIN batch.rules, a \in OrganizeAgents(batch.trades) :
              Cardinality({OutputFor(batch.rules[i], other, a) :
                              other \in UnitsVaried(batch.trades, a)
                                          \cup ActionVaried(batch.trades, a)})
                  = 1

(* an agent's round trip is flagged by both rules at its entry tick (0.5   *)
(* by the round-trip rule, 1.0 by the predictive rule, combined to 1.0),    *)
(* and another agent has traded as well                                     *)
C37_Witness ==
    /\ Called /\ Len(batch.results) = 1
    /\ \E a \in OrganizeAgents(batch.trades), t \in {1, 2} :
          /\ MapGet(OutputFor(RoundTripRule, batch.trades, a), t, Zero) = Half
          /\ MapGet(OutputFor(PredictiveRule, batch.trades, a), t, Zero) = One
          /\ batch.results[1][a][t] = One
          /\ \E i \in DOMAIN batch.trades : batch.trades[i].agent_id # a

=============================================================================
